---- MODULE Spec2Model ----
(***************************************************************************)
(* Model of the block indexing storage engine in db/rocksdb.go: the column *)
(* families of the store, ConnectBlock / DisconnectBlock on a UTXO chain,  *)
(* DisconnectBlockRangeUTXO and the block-tx retention buffer.             *)
(*                                                                         *)
(* A column family is a function from the keys it holds to their values.   *)
(* Address descriptors and keys are sequences of bytes; transaction ids    *)
(* are positive numbers (0 is the empty txid of a coinbase input).         *)
(***************************************************************************)
EXTENDS Integers, Sequences, FiniteSets, TLC

\* ------------------------------------------------------------------ bounds

\* highest block height the driver connects
MaxHeight == 2
\* blocks kept in the block-tx buffer (chainParser.KeepBlockAddresses())
Keep == 1
\* highest height of the two-transaction blocks
MaxPairHeight == 1

\* blocks without transactions are connected at heights 0..MaxGapHeight
MaxGapHeight == 4

\* the columns scanned in full hold 0..MaxRows records, and the iterator is
\* reopened every 1..MaxRefresh records or every refreshIterator records
MaxRows == 4
MaxRefresh == 3

\* a block hash or transaction id is packed into PackedTxidLen bytes
PackedTxidLen == 2

\* ------------------------------------------------------- program constants

refreshIterator == 5000000
packedHeightBytes == 4
dbVersion == 3
maxAddrDescLen == 1024
opInsert == 0
opDelete == 1

\* ---------------------------------------------------------------- uint32
\* A uint32 is kept as the representative of its residue class nearest zero, so
\* that -1 stands for 4294967295: adding and subtracting one wrap as in Go.

\* a < b on uint32
ULess(a, b) == IF (a < 0) = (b < 0) THEN a < b ELSE b < 0

\* ---------------------------------------------------------------- helpers

EmptyMap == [x \in {} |-> 0]
Has(m, k) == k \in DOMAIN m
Put(m, k, v) == [x \in (DOMAIN m) \cup {k} |-> IF x = k THEN v ELSE m[x]]
Del(m, k) == [x \in (DOMAIN m) \ {k} |-> m[x]]
DelAll(m, ks) == [x \in (DOMAIN m) \ ks |-> m[x]]
\* b applied over a: the effect of writing the puts b onto the column a
Over(a, b) == [x \in (DOMAIN a) \cup (DOMAIN b) |-> IF x \in DOMAIN b THEN b[x] ELSE a[x]]

SetMax(S) == CHOOSE x \in S : \A y \in S : y <= x

\* ------------------------------------------------------------------ codecs

\* binary.BigEndian.PutUint32
\* the four bytes of a height, least significant byte first
packUintLittleEndian(i) ==
    << i % 256, (i \div 256) % 256, (i \div 65536) % 256, (i \div 16777216) % 256 >>

packUint(i) ==
    << (i \div 16777216) % 256, (i \div 65536) % 256, (i \div 256) % 256, i % 256 >>

unpackUint(buf) ==
    (IF buf[1] >= 128 THEN buf[1] - 256 ELSE buf[1]) * 16777216
        + buf[2] * 65536 + buf[3] * 256 + buf[4]

packAddressKey(addrDesc, height) == addrDesc \o packUint(height)

\* --------------------------------------------------------------- the store

VARIABLES
    cfHeight,          \* height -> block info
    cfAddresses,       \* packed address key -> outpoints
    cfTxAddresses,     \* txid -> TxAddresses
    cfAddressBalance,  \* address descriptor -> AddrBalance
    cfBlockTxs,        \* height -> blockTxs of the block
    cfTransactions,    \* txid -> cached transaction
    isBestHeight,      \* d.is.BestHeight
    last,              \* the last call and how it ended
    chain,             \* height -> the connected block and what it touched
    snap,              \* height -> the columns before that block was connected
    call,              \* the write in flight: its position and its batch
    is,                \* d.is, the internal state in memory
    cfDefault,         \* the internal state record of the default column
    db,                \* d.db is open
    scan,              \* the last GetAddrDescTransactions call and its callbacks
    codec,             \* the last value packed and unpacked, and what came of it
    cs                 \* the full scans of columns: the scan in progress and its results

cols == << cfHeight, cfAddresses, cfTxAddresses, cfAddressBalance, cfBlockTxs, cfTransactions >>
vars == << cfHeight, cfAddresses, cfTxAddresses, cfAddressBalance, cfBlockTxs, cfTransactions,
           isBestHeight, last, chain, snap, call, is, cfDefault, db, scan, codec, cs >>

\* what the block index operations leave alone
sideVars == << call, is, cfDefault, db, scan, codec, cs >>

\* what is recorded of a call: its name, its arguments, its error and what it logged
NoLast == [op |-> "none", err |-> "", lower |-> 0, higher |-> 0, errHeight |-> 0,
           reset |-> FALSE, doubleSpend |-> FALSE, notFound |-> FALSE, outOfBounds |-> FALSE,
           coin |-> "", inconsistent |-> FALSE,
           deleted |-> FALSE, cached |-> FALSE, pastLower |-> FALSE]

\* no write in flight
NoCall == [pc |-> "idle", op |-> "none", height |-> 0, rh |-> 0, wb |-> << >>,
           before |-> << >>, after |-> << >>]

\* d.is before SetInternalState, and the default column without the record
NoIs == [set |-> FALSE, coin |-> "", dbState |-> "closed", columns |-> << >>]
NoRecord == [found |-> FALSE, coin |-> "", dbState |-> "closed", columns |-> << >>]

\* no full scan made
NoCs ==
    [pc |-> "idle", thr |-> 1, cols |-> << >>, stats |-> << >>, returned |-> << >>,
     visited |-> << >>, c |-> 0, rows |-> 0, keysSum |-> 0, valuesSum |-> 0, count |-> 0,
     it |-> 0, key |-> << >>, seekKey |-> << >>, stop |-> FALSE, err |-> "",
     sig |-> [sent |-> FALSE, col |-> 0, unread |-> FALSE, further |-> 0],
     scanned |-> FALSE, lower |-> 0, higher |-> 0, addrKeys |-> << >>,
     addrVisited |-> << >>]

\* nothing packed
NoCodec ==
    [op |-> "none", bi |-> << >>, buf |-> << >>, n |-> 0, r |-> << >>, l |-> 0,
     addrDesc |-> << >>, h1 |-> 0, h2 |-> 0, key1 |-> << >>, key2 |-> << >>,
     unpacked |-> << >>, height |-> 0, err |-> "", ta |-> << >>]

\* no GetAddrDescTransactions call made
NoScan == [called |-> FALSE, addrDesc |-> << >>, lower |-> 0, higher |-> 0,
           fn |-> << >>, calls |-> << >>, err |-> ""]

\* ------------------------------------------------- reads of the store

NilBalance == [found |-> FALSE, txs |-> 0, sentSat |-> 0, balanceSat |-> 0]

\* nil when the address has no record
GetAddrDescBalance(addrDesc) ==
    IF Has(cfAddressBalance, addrDesc)
    THEN [found |-> TRUE,
          txs |-> cfAddressBalance[addrDesc].txs,
          sentSat |-> cfAddressBalance[addrDesc].sentSat,
          balanceSat |-> cfAddressBalance[addrDesc].balanceSat]
    ELSE NilBalance

\* a record without inputs and outputs returned for a transaction that is not stored
EmptyTxAddresses == [found |-> TRUE, height |-> 0, inputs |-> <<>>, outputs |-> <<>>]

NilTxAddresses == [found |-> FALSE, height |-> 0, inputs |-> <<>>, outputs |-> <<>>]

\* nil when the transaction has no record
getTxAddresses(btxID) ==
    IF Has(cfTxAddresses, btxID)
    THEN [found |-> TRUE,
          height |-> cfTxAddresses[btxID].height,
          inputs |-> cfTxAddresses[btxID].inputs,
          outputs |-> cfTxAddresses[btxID].outputs]
    ELSE NilTxAddresses

\* the blockTxs of a height; empty when the record is missing or holds no bytes
getBlockTxs(height) ==
    IF Has(cfBlockTxs, height) THEN cfBlockTxs[height] ELSE <<>>

\* ------------------------------------------------ the parser (external)

\* chainParser.GetAddrDescFromVout: the descriptor of an output, or an error
GetAddrDescFromVout(output) == [addrDesc |-> output.addrDesc, err |-> output.err]

\* chainParser.PackTxid: txid 0 is the empty txid, ErrTxidMissing
ErrTxidMissing(txid) == txid = 0

\* ------------------------------------------------------- connect: UTXO

\* resetValueSatToZero leaving the amount as it is
resetValueSatKept(valueSat) == valueSat

\* valueSat.SetInt64(0) on a negative amount
resetValueSatToZero(valueSat) == 0

ClampSat(valueSat) == IF valueSat < 0 THEN resetValueSatToZero(valueSat) ELSE valueSat

\* processedInTx finding no outpoint of the transaction
processedInTxNever(o, btxID) == FALSE

\* whether the address was already used in this transaction
processedInTx(o, btxID) == \E k \in 1..Len(o) : o[k].btxID = btxID

\* the balance the block works on: the working map's, or the stored one, or a new one
WorkingBalance(balances, addrDesc) ==
    IF Has(balances, addrDesc) THEN balances[addrDesc]
    ELSE IF GetAddrDescBalance(addrDesc).found THEN GetAddrDescBalance(addrDesc)
    ELSE [found |-> TRUE, txs |-> 0, sentSat |-> 0, balanceSat |-> 0]

\* an output test that turns a descriptor of maxAddrDescLen bytes away as well
IndexedOutputBelowMax(output) ==
    LET r == GetAddrDescFromVout(output)
    IN  ~r.err /\ Len(r.addrDesc) # 0 /\ ~(Len(r.addrDesc) >= maxAddrDescLen)

\* an output is indexed when its descriptor decodes and has 1..maxAddrDescLen bytes
IndexedOutput(output) ==
    LET r == GetAddrDescFromVout(output)
    IN  ~r.err /\ Len(r.addrDesc) # 0 /\ ~(Len(r.addrDesc) > maxAddrDescLen)

\* the record a transaction starts with: outputs sized, values set, inputs sized
NewTxAddresses(height, tx) ==
    [found |-> TRUE,
     height |-> height,
     inputs |-> [i \in 1..Len(tx.vin) |-> [addrDesc |-> <<>>, valueSat |-> 0]],
     outputs |-> [i \in 1..Len(tx.vout) |->
                    [addrDesc |-> IF IndexedOutput(tx.vout[i])
                                  THEN GetAddrDescFromVout(tx.vout[i]).addrDesc ELSE <<>>,
                     spent |-> FALSE,
                     valueSat |-> tx.vout[i].valueSat]]]

\* the output side without the value
CreditOutputValueLost(ab, processed, valueSat) ==
    [found |-> TRUE,
     txs |-> IF processed THEN ab.txs ELSE ab.txs + 1,
     sentSat |-> ab.sentSat,
     balanceSat |-> ab.balanceSat]

\* ab.BalanceSat.Add(&ab.BalanceSat, &output.ValueSat), txs once per tx
CreditOutput(ab, processed, valueSat) ==
    [found |-> TRUE,
     txs |-> IF processed THEN ab.txs ELSE ab.txs + 1,
     sentSat |-> ab.sentSat,
     balanceSat |-> ab.balanceSat + valueSat]

\* the input side without the sent amount
DebitInputSentKept(ab, processed, valueSat) ==
    [found |-> TRUE,
     txs |-> IF processed THEN ab.txs ELSE ab.txs + 1,
     sentSat |-> ab.sentSat,
     balanceSat |-> ClampSat(ab.balanceSat - valueSat)]

\* the input side without the balance
DebitInputBalanceKept(ab, processed, valueSat) ==
    [found |-> TRUE,
     txs |-> IF processed THEN ab.txs ELSE ab.txs + 1,
     sentSat |-> ab.sentSat + valueSat,
     balanceSat |-> ab.balanceSat]

\* the input side: balance down (reset to zero when negative), sent up
DebitInput(ab, processed, valueSat) ==
    [found |-> TRUE,
     txs |-> IF processed THEN ab.txs ELSE ab.txs + 1,
     sentSat |-> ab.sentSat + valueSat,
     balanceSat |-> ClampSat(ab.balanceSat - valueSat)]

\* one output of the first loop of processAddressesUTXO
ProcessOutput(w, btxID, i, output) ==
    IF ~IndexedOutput(output) THEN w
    ELSE LET a == GetAddrDescFromVout(output).addrDesc
             o == IF Has(w.addresses, a) THEN w.addresses[a] ELSE <<>>
             processed == Has(w.addresses, a) /\ processedInTx(o, btxID)
             ab == WorkingBalance(w.balances, a)
         IN  [w EXCEPT !.addresses = Put(w.addresses, a, Append(o, [btxID |-> btxID, index |-> i - 1])),
                       !.balances = Put(w.balances, a, CreditOutput(ab, processed, output.valueSat))]

RECURSIVE ProcessOutputs(_, _, _, _)
ProcessOutputs(w, btxID, vout, i) ==
    IF i > Len(vout) THEN w
    ELSE ProcessOutputs(ProcessOutput(w, btxID, i, vout[i]), btxID, vout, i + 1)

\* the first loop: every transaction's record and outputs
RECURSIVE ProcessTxOutputs(_, _, _, _)
ProcessTxOutputs(w, height, txs, txi) ==
    IF txi > Len(txs) THEN w
    ELSE LET tx == txs[txi]
             w1 == [w EXCEPT !.txAddressesMap = Put(w.txAddressesMap, tx.txid, NewTxAddresses(height, tx))]
         IN  ProcessTxOutputs(ProcessOutputs(w1, tx.txid, tx.vout, 1), height, txs, txi + 1)

\* the transaction an input refers to, read from the store only
InputTxAddressesStored(txAddressesMap, btxID) == getTxAddresses(btxID)

\* the transaction an input refers to: the block's working map first, then the store
InputTxAddresses(txAddressesMap, btxID) ==
    IF Has(txAddressesMap, btxID) THEN txAddressesMap[btxID] ELSE getTxAddresses(btxID)

\* one input of the second loop of processAddressesUTXO
ProcessInput(w, spendingTxid, i, input) ==
    IF ErrTxidMissing(input.txid) THEN w
    ELSE LET ita == InputTxAddresses(w.txAddressesMap, input.txid)
         IN  IF ~ita.found THEN [w EXCEPT !.notFound = TRUE]
             ELSE LET m1 == Put(w.txAddressesMap, input.txid, ita)
                  IN  IF Len(ita.outputs) <= input.vout
                      THEN [w EXCEPT !.txAddressesMap = m1, !.outOfBounds = TRUE]
                      ELSE LET ot == ita.outputs[input.vout + 1]
                               m2 == [m1 EXCEPT ![input.txid].outputs[input.vout + 1].spent = TRUE]
                               m3 == [m2 EXCEPT ![spendingTxid].inputs[i] =
                                          [addrDesc |-> ot.addrDesc, valueSat |-> ot.valueSat]]
                               w3 == [w EXCEPT !.txAddressesMap = m3,
                                               !.doubleSpend = w.doubleSpend \/ ot.spent]
                           IN  IF Len(ot.addrDesc) = 0 THEN w3
                               ELSE LET a == ot.addrDesc
                                        o == IF Has(w.addresses, a) THEN w.addresses[a] ELSE <<>>
                                        processed == Has(w.addresses, a) /\ processedInTx(o, spendingTxid)
                                        ab == WorkingBalance(w.balances, a)
                                    IN  [w3 EXCEPT
                                           !.addresses = Put(w.addresses, a,
                                                Append(o, [btxID |-> spendingTxid, index |-> -i])),
                                           !.balances = Put(w.balances, a,
                                                DebitInput(ab, processed, ot.valueSat)),
                                           !.reset = w.reset \/ (ab.balanceSat - ot.valueSat < 0)]

RECURSIVE ProcessInputs(_, _, _, _)
ProcessInputs(w, spendingTxid, vin, i) ==
    IF i > Len(vin) THEN w
    ELSE ProcessInputs(ProcessInput(w, spendingTxid, i, vin[i]), spendingTxid, vin, i + 1)

\* the second loop: every transaction's inputs
RECURSIVE ProcessTxInputs(_, _, _)
ProcessTxInputs(w, txs, txi) ==
    IF txi > Len(txs) THEN w
    ELSE ProcessTxInputs(ProcessInputs(w, txs[txi].txid, txs[txi].vin, 1), txs, txi + 1)

\* addresses, txAddressesMap and balances of the block, with the warnings it logged
processAddressesUTXO(block) ==
    LET w0 == [addresses |-> EmptyMap, txAddressesMap |-> EmptyMap, balances |-> EmptyMap,
               reset |-> FALSE, doubleSpend |-> FALSE, notFound |-> FALSE,
               outOfBounds |-> FALSE]
    IN  ProcessTxInputs(ProcessTxOutputs(w0, block.height, block.txs, 1), block.txs, 1)

\* ------------------------------------------------------ connect: flush

\* the stored form of a working record
StoredTxAddresses(ta) == [height |-> ta.height, inputs |-> ta.inputs, outputs |-> ta.outputs]
StoredBalance(ab) == [txs |-> ab.txs, sentSat |-> ab.sentSat, balanceSat |-> ab.balanceSat]

\* storeAddresses: one put per address of the block, under the packed key
storeAddresses(column, height, addresses) ==
    Over(column, [k \in {packAddressKey(a, height) : a \in DOMAIN addresses} |->
                    LET a == CHOOSE a \in DOMAIN addresses : packAddressKey(a, height) = k
                    IN  addresses[a]])

\* storeTxAddresses: one put per transaction of the working map
storeTxAddresses(column, am) ==
    Over(column, [t \in DOMAIN am |-> StoredTxAddresses(am[t])])

\* the balances storeBalances deletes
DeletedBalances(abm) == {a \in DOMAIN abm : ~abm[a].found \/ abm[a].txs = 0}

\* a storeBalances that puts the balances without transactions as well
storeBalancesWithoutTxs(column, abm) ==
    LET dels == {a \in DOMAIN abm : ~abm[a].found}
    IN  Over(DelAll(column, dels), [a \in (DOMAIN abm) \ dels |-> StoredBalance(abm[a])])

\* storeBalances: a balance that is nil or has no transactions (Txs <= 0 on a uint32)
\* is deleted, the others put
storeBalances(column, abm) ==
    LET dels == {a \in DOMAIN abm : ~abm[a].found \/ abm[a].txs = 0}
    IN  Over(DelAll(column, dels), [a \in (DOMAIN abm) \ dels |-> StoredBalance(abm[a])])

\* the blockTxs record of a block: each txid with the outpoints its inputs name
BlockTxsOf(block) ==
    [i \in 1..Len(block.txs) |->
        [btxID |-> block.txs[i].txid,
         inputs |-> [v \in 1..Len(block.txs[i].vin) |->
                        [btxID |-> block.txs[i].vin[v].txid, index |-> block.txs[i].vin[v].vout]]]]

\* a cleanup that goes on below a height without a record
RECURSIVE CleanupBlockTxsPastGaps(_, _, _)
CleanupBlockTxsPastGaps(column, rh, height) ==
    IF ~ULess(rh, height) THEN column
    ELSE CleanupBlockTxsPastGaps(Del(column, rh), rh - 1, height)

\* the cleanup loop of storeAndCleanupBlockTxs: from rh downwards while rh < height
\* (uint32), until a height has no record or an empty one; deletes go to the store
RECURSIVE CleanupBlockTxs(_, _, _)
CleanupBlockTxs(column, rh, height) ==
    IF ~ULess(rh, height) THEN column
    ELSE IF ~Has(column, rh) \/ column[rh] = <<>> THEN column
    ELSE CleanupBlockTxs(Del(column, rh), rh - 1, height)

storeAndCleanupBlockTxs(column, block) ==
    LET cleaned == IF block.height > Keep
                   THEN CleanupBlockTxs(column, block.height - Keep, block.height)
                   ELSE column
    IN  Put(cleaned, block.height, BlockTxsOf(block))

\* packBlockInfo: of the int64 time (a high and a low 32 bit word) the low word is written
BlockInfoOf(block) ==
    [hash |-> block.hash, time |-> block.time.lo, txs |-> Len(block.txs), size |-> block.size]

\* is.UpdateBestHeight
UpdateBestHeight(height) == height

\* ------------------------------------------------------- what was connected
\* chain records, per height, what the connected block pays and spends:
\* per transaction its outputs (address when indexed, value) and what each
\* input resolves to among the transactions connected before it or in the block.

\* an input with nothing to spend from: a coinbase input, or a reference to an
\* output that is not known
Unresolved == [resolved |-> FALSE, txid |-> 0, vout |-> 0, addrDesc |-> << >>, valueSat |-> 0]

TxOutputs(tx) ==
    [i \in 1..Len(tx.vout) |->
        [addrDesc |-> IF IndexedOutput(tx.vout[i]) THEN tx.vout[i].addrDesc ELSE << >>,
         valueSat |-> tx.vout[i].valueSat]]

\* the outputs of transaction txid among the connected blocks and the block itself
KnownOutputs(ch, block, txid) ==
    {TxOutputs(block.txs[i]) : i \in {i \in 1..Len(block.txs) : block.txs[i].txid = txid}}
        \cup UNION {{ch[h][i].outs : i \in {i \in 1..Len(ch[h]) : ch[h][i].txid = txid}} :
                        h \in DOMAIN ch}

Resolve(ch, block, input) ==
    LET cands == {outs \in KnownOutputs(ch, block, input.txid) : input.vout < Len(outs)}
    IN  IF input.txid = 0 \/ cands = {} THEN Unresolved
        ELSE LET o == (CHOOSE outs \in cands : TRUE)[input.vout + 1]
             IN  [resolved |-> TRUE, txid |-> input.txid, vout |-> input.vout,
                  addrDesc |-> o.addrDesc, valueSat |-> o.valueSat]

ChainEntry(ch, block) ==
    [i \in 1..Len(block.txs) |->
        [txid |-> block.txs[i].txid,
         outs |-> TxOutputs(block.txs[i]),
         ins |-> [v \in 1..Len(block.txs[i].vin) |-> Resolve(ch, block, block.txs[i].vin[v])]]]

\* ---------------------------------------------------- disconnect: UTXO

\* getAddressBalance of disconnectTxAddresses: the working map's entry, or the stored
\* balance (nil when there is none), which then enters the working map
DisconnectBalance(balances, addrDesc) ==
    IF Has(balances, addrDesc) THEN balances[addrDesc] ELSE GetAddrDescBalance(addrDesc)

\* the input side undone: sent down (reset to zero when negative), balance up
UndoInput(b, exist, valueSat) ==
    [found |-> TRUE,
     txs |-> IF exist THEN b.txs ELSE b.txs - 1,
     sentSat |-> ClampSat(b.sentSat - valueSat),
     balanceSat |-> b.balanceSat + valueSat]

\* the output side undone: balance down (reset to zero when negative)
UndoOutput(b, exist, valueSat) ==
    [found |-> TRUE,
     txs |-> IF exist THEN b.txs ELSE b.txs - 1,
     sentSat |-> b.sentSat,
     balanceSat |-> ClampSat(b.balanceSat - valueSat)]

\* the transaction whose output an input spent: the working map's, or the stored one
SpentTxAddresses(txAddressesToUpdate, btxID) ==
    IF Has(txAddressesToUpdate, btxID) THEN txAddressesToUpdate[btxID] ELSE getTxAddresses(btxID)

\* one input of the first loop of disconnectTxAddresses; inputs are the outpoints of
\* the blockTxs record. d.addresses is the local set of the call.
DisconnectInput(d, i, t, inputs) ==
    IF d.panic \/ Len(t.addrDesc) = 0 THEN d
    ELSE LET a == t.addrDesc
             exist == a \in d.addresses
             b == DisconnectBalance(d.balances, a)
             b1 == IF b.found THEN UndoInput(b, exist, t.valueSat) ELSE b
             sa == SpentTxAddresses(d.txAddressesToUpdate, inputs[i].btxID)
             n == inputs[i].index
             bad == ~sa.found \/ n < 0 \/ n >= Len(sa.outputs)
             sa1 == IF bad THEN sa ELSE [sa EXCEPT !.outputs[n + 1].spent = FALSE]
         IN  [d EXCEPT !.addresses = d.addresses \cup {a},
                       !.balances = Put(d.balances, a, b1),
                       !.txAddressesToUpdate = Put(d.txAddressesToUpdate, inputs[i].btxID, sa1),
                       !.reset = d.reset \/ (b.found /\ b.sentSat - t.valueSat < 0),
                       !.panic = bad]

RECURSIVE DisconnectInputs(_, _, _, _)
DisconnectInputs(d, txaInputs, inputs, i) ==
    IF i > Len(txaInputs) THEN d
    ELSE DisconnectInputs(DisconnectInput(d, i, txaInputs[i], inputs), txaInputs, inputs, i + 1)

\* one output of the second loop of disconnectTxAddresses
DisconnectOutput(d, t) ==
    IF d.panic \/ Len(t.addrDesc) = 0 THEN d
    ELSE LET a == t.addrDesc
             exist == a \in d.addresses
             b == DisconnectBalance(d.balances, a)
             b1 == IF b.found THEN UndoOutput(b, exist, t.valueSat) ELSE b
         IN  [d EXCEPT !.addresses = d.addresses \cup {a},
                       !.balances = Put(d.balances, a, b1),
                       !.reset = d.reset \/ (b.found /\ b.balanceSat - t.valueSat < 0)]

RECURSIVE DisconnectOutputs(_, _, _)
DisconnectOutputs(d, txaOutputs, i) ==
    IF i > Len(txaOutputs) THEN d
    ELSE DisconnectOutputs(DisconnectOutput(d, txaOutputs[i]), txaOutputs, i + 1)

\* a disconnectTxAddresses that leaves the address keys in the store
disconnectTxAddressesKeysKept(d, height, inputs, txa) ==
    LET d0 == [d EXCEPT !.addresses = {}]
        d1 == DisconnectInputs(d0, txa.inputs, inputs, 1)
    IN  DisconnectOutputs(d1, txa.outputs, 1)

\* disconnectTxAddresses: balances and spent flags undone, the address keys of the
\* transaction at this height deleted in the batch
disconnectTxAddresses(d, height, inputs, txa) ==
    LET d0 == [d EXCEPT !.addresses = {}]
        d1 == DisconnectInputs(d0, txa.inputs, inputs, 1)
        d2 == DisconnectOutputs(d1, txa.outputs, 1)
    IN  [d2 EXCEPT !.addrKeys = d.addrKeys \cup {packAddressKey(a, height) : a \in d2.addresses}]

\* the transactions of one block, last to first
RECURSIVE DisconnectBlockTxs(_, _, _, _)
DisconnectBlockTxs(d, height, blockTxs, i) ==
    IF i < 1 \/ d.panic THEN d
    ELSE LET txa == getTxAddresses(blockTxs[i].btxID)
             d1 == [d EXCEPT !.txsToDelete = d.txsToDelete \cup {blockTxs[i].btxID}]
             d2 == IF ~txa.found THEN d1
                   ELSE disconnectTxAddresses(d1, height, blockTxs[i].inputs, txa)
         IN  DisconnectBlockTxs(d2, height, blockTxs, i - 1)

\* the heights higher down to lower; height is a uint32, so after height 0 the loop
\* goes on at 4294967295 and indexes outside the loaded blocks
RECURSIVE DisconnectHeights(_, _, _)
DisconnectHeights(d, lower, height) ==
    IF d.panic THEN d
    ELSE IF ULess(height, lower) THEN d
    ELSE IF height < 0 THEN [d EXCEPT !.panic = TRUE, !.pastLower = TRUE]
    ELSE LET bt == getBlockTxs(height)
             d1 == DisconnectBlockTxs(d, height, bt, Len(bt))
         IN  DisconnectHeights([d1 EXCEPT !.heights = d1.heights \cup {height}], lower, height - 1)

\* the lowest height of the range without blockTxs, or none
MissingHeights(lower, higher) == {h \in lower..higher : Len(getBlockTxs(h)) = 0}

\* the highest height of the range without blockTxs
LastMissing(lower, higher) ==
    CHOOSE h \in MissingHeights(lower, higher) : \A k \in MissingHeights(lower, higher) : h >= k

FirstMissing(lower, higher) ==
    CHOOSE h \in MissingHeights(lower, higher) : \A k \in MissingHeights(lower, higher) : h <= k

processDisconnect(lower, higher) ==
    DisconnectHeights([addresses |-> {}, addrKeys |-> {}, txAddressesToUpdate |-> EmptyMap,
                       balances |-> EmptyMap, txsToDelete |-> {}, heights |-> {},
                       reset |-> FALSE, panic |-> FALSE, pastLower |-> FALSE], lower, higher)

\* DisconnectBlockRangeUTXO(lower, higher)
DisconnectBlockRangeUTXO(lower, higher) ==
    IF MissingHeights(lower, higher) # {}
    THEN /\ UNCHANGED << cols, isBestHeight >>
         /\ last' = [NoLast EXCEPT !.op = "DisconnectBlockRangeUTXO", !.err = "rebuild",
                                   !.lower = lower, !.higher = higher,
                                   !.errHeight = FirstMissing(lower, higher)]
    ELSE LET d == processDisconnect(lower, higher)
         IN  IF d.panic
             THEN /\ UNCHANGED << cols, isBestHeight >>
                  /\ last' = [NoLast EXCEPT !.op = "DisconnectBlockRangeUTXO", !.err = "panic",
                                            !.lower = lower, !.higher = higher,
                                            !.pastLower = d.pastLower]
             ELSE /\ cfAddresses' = DelAll(cfAddresses, d.addrKeys)
                  /\ cfBlockTxs' = DelAll(cfBlockTxs, d.heights)
                  /\ cfHeight' = DelAll(cfHeight, d.heights)
                  /\ cfTxAddresses' =
                        DelAll(storeTxAddresses(cfTxAddresses, d.txAddressesToUpdate), d.txsToDelete)
                  /\ cfAddressBalance' = storeBalances(cfAddressBalance, d.balances)
                  /\ cfTransactions' = DelAll(cfTransactions, d.txsToDelete)
                  /\ UNCHANGED isBestHeight
                  /\ last' = [NoLast EXCEPT !.op = "DisconnectBlockRangeUTXO",
                                            !.lower = lower, !.higher = higher,
                                            !.reset = d.reset,
                                            !.deleted = DeletedBalances(d.balances)
                                                            \cap DOMAIN cfAddressBalance # {},
                                            !.cached = d.txsToDelete
                                                            \cap DOMAIN cfTransactions # {}]

\* -------------------------------------------------------------- the driver

\* the height the next block is connected at: one above the best block of the store
Top == IF DOMAIN cfHeight = {} THEN -1 ELSE SetMax(DOMAIN cfHeight)

TxId(height, i) == 2 * height + i

Output(a, v) == [addrDesc |-> a, err |-> FALSE, valueSat |-> v]
Outpoint(t, n) == [txid |-> t, vout |-> n]
MkBlock(height, txs) ==
    [height |-> height, hash |-> height + 1, time |-> [hi |-> 0, lo |-> height],
     size |-> Len(txs), txs |-> txs]

AddrDescs == {<< >>, <<1>>, <<2>>}
Values == {1, 2}

\* blocks of one transaction: a coinbase input, an input spending the output
\* of an earlier block, or an input naming a transaction that does not exist
SoloVins(height) ==
    {<<Outpoint(0, 0)>>, <<Outpoint(TxId(height, 2), 0)>>}
        \cup {<<Outpoint(TxId(k, 1), 0)>> : k \in 0..(height - 1)}

SoloBlocks(height) ==
    {MkBlock(height, << [txid |-> TxId(height, 1), vin |-> vin, vout |-> <<Output(a, v)>>] >>) :
        vin \in SoloVins(height), a \in AddrDescs, v \in Values}

Init ==
    /\ cfHeight = EmptyMap
    /\ cfAddresses = EmptyMap
    /\ cfTxAddresses = EmptyMap
    /\ cfAddressBalance = EmptyMap
    /\ cfBlockTxs = EmptyMap
    /\ cfTransactions = EmptyMap
    /\ isBestHeight = 0
    /\ last = NoLast
    /\ chain = EmptyMap
    /\ snap = EmptyMap
    /\ call = NoCall
    /\ is = NoIs
    /\ cfDefault = NoRecord
    /\ db = TRUE
    /\ scan = NoScan
    /\ codec = NoCodec
    /\ cs = NoCs

\* ConnectBlock on a UTXO chain: writeBlock(block, opInsert)
ConnectBlock(block) ==
    LET w == processAddressesUTXO(block)
    IN  /\ cfHeight' = Put(cfHeight, block.height, BlockInfoOf(block))
        /\ isBestHeight' = UpdateBestHeight(block.height)
        /\ cfAddresses' = storeAddresses(cfAddresses, block.height, w.addresses)
        /\ cfTxAddresses' = storeTxAddresses(cfTxAddresses, w.txAddressesMap)
        /\ cfAddressBalance' = storeBalances(cfAddressBalance, w.balances)
        /\ cfBlockTxs' = storeAndCleanupBlockTxs(cfBlockTxs, block)
        /\ UNCHANGED cfTransactions
        /\ last' = [NoLast EXCEPT !.op = "ConnectBlock", !.lower = block.height,
                                  !.higher = block.height, !.reset = w.reset,
                                  !.doubleSpend = w.doubleSpend, !.notFound = w.notFound,
                                  !.outOfBounds = w.outOfBounds]

\* DisconnectBlock on a UTXO chain: writeBlock(block, opDelete). writeHeight has put the
\* delete in the batch and updated the best height before the error is returned.
DisconnectBlock(height) ==
    /\ isBestHeight' = UpdateBestHeight(height - 1)
    /\ UNCHANGED cols
    /\ last' = [NoLast EXCEPT !.op = "DisconnectBlock", !.err = "not supported",
                              !.lower = height, !.higher = height]

\* blocks of two transactions, each with one output and one input: a coinbase input,
\* an input spending the output of the other transaction of the block (before or after
\* it in the block), or one spending an output of an earlier block
PairVins(height, i) ==
    {<<Outpoint(0, 0)>>, <<Outpoint(TxId(height, 3 - i), 0)>>}
        \cup {<<Outpoint(TxId(k, j), 0)>> : k \in 0..(height - 1), j \in 1..2}

PairTxs(height, i) ==
    {[txid |-> TxId(height, i), vin |-> vin, vout |-> <<Output(a, v)>>] :
        vin \in PairVins(height, i), a \in AddrDescs, v \in Values}

PairBlocks(height) ==
    {MkBlock(height, <<t1, t2>>) : t1 \in PairTxs(height, 1), t2 \in PairTxs(height, 2)}

\* the driver connects the next block, and keeps the record of what is connected
ConnectNext(block) ==
    /\ ConnectBlock(block)
    /\ chain' = Put(chain, block.height, ChainEntry(chain, block))
    /\ UNCHANGED << snap, sideVars >>

Connect == Top < MaxHeight /\ \E block \in SoloBlocks(Top + 1) : ConnectNext(block)

Disconnect == Top >= 0 /\ DisconnectBlock(Top) /\ UNCHANGED << chain, snap, sideVars >>

DisconnectRange ==
    \E lower \in 0..MaxHeight, higher \in 0..MaxHeight :
        /\ lower <= higher
        /\ DisconnectBlockRangeUTXO(lower, higher)
        /\ chain' = IF last'.err = "" THEN DelAll(chain, lower..higher) ELSE chain
        /\ UNCHANGED << snap, sideVars >>

Next ==
    \/ Connect
    \/ Disconnect
    \/ DisconnectRange

\* connect, single-block disconnect and range disconnect in any order
Spec == Init /\ [][Next]_vars

\* blocks are only connected, at consecutive heights from 0
NextConnect == Connect

SpecConnect == Init /\ [][NextConnect]_vars

\* two-transaction blocks are connected at consecutive heights from 0
ConnectPair == Top < MaxPairHeight /\ \E block \in PairBlocks(Top + 1) : ConnectNext(block)

NextPair == ConnectPair

SpecPair == Init /\ [][NextPair]_vars

\* blocks of one transaction with two outputs and two inputs, each input a coinbase
\* input or one spending an output of an earlier block
TouchRefs(height) ==
    {Outpoint(0, 0)} \cup {Outpoint(TxId(k, 1), n) : k \in 0..(height - 1), n \in 0..1}

TouchBlocks(height) ==
    {MkBlock(height, << [txid |-> TxId(height, 1), vin |-> <<r1, r2>>,
                         vout |-> <<Output(a, 1), Output(b, 2)>>] >>) :
        r1 \in TouchRefs(height), r2 \in TouchRefs(height), a \in AddrDescs, b \in AddrDescs}

ConnectTouch == Top < MaxPairHeight /\ \E block \in TouchBlocks(Top + 1) : ConnectNext(block)

NextTouch ==
    \/ ConnectTouch
    \/ DisconnectRange

\* two-output two-input transactions are connected and disconnected in any order
SpecTouch == Init /\ [][NextTouch]_vars

\* blocks are connected and then disconnected from the best block downwards; snap keeps
\* the columns as they were before each block still connected
ConnectSnap ==
    /\ Top < MaxHeight
    /\ \E block \in SoloBlocks(Top + 1) :
        /\ ConnectBlock(block)
        /\ snap' = Put(snap, block.height, cols)
        /\ UNCHANGED << chain, sideVars >>

DisconnectTop ==
    \E lower \in 0..MaxHeight :
        /\ lower <= Top
        /\ DisconnectBlockRangeUTXO(lower, Top)
        /\ snap' = IF last'.err = "" THEN DelAll(snap, {h \in DOMAIN snap : h >= lower}) ELSE snap
        /\ UNCHANGED << chain, sideVars >>

NextRoundTrip ==
    \/ ConnectSnap
    \/ DisconnectTop

SpecRoundTrip == Init /\ [][NextRoundTrip]_vars

\* ------------------------------------------------- the write, step by step
\* writeBlock and DisconnectBlockRangeUTXO collect their writes in a WriteBatch wb,
\* a sequence of groups of deletes and puts on one column, and hand it to d.db.Write
\* at the end; the cleanup of old blockTxs records writes to the store directly.

BatchGroup(cf, dels, puts) == [cf |-> cf, dels |-> dels, puts |-> puts]

\* the batch of writeBlock(block, opInsert), in the order the groups are added
ConnectBatch(block, w) ==
    << BatchGroup("height", {}, Put(EmptyMap, block.height, BlockInfoOf(block))),
       BatchGroup("addresses", {}, storeAddresses(EmptyMap, block.height, w.addresses)),
       BatchGroup("txAddresses", {}, storeTxAddresses(EmptyMap, w.txAddressesMap)),
       BatchGroup("addressBalance", DeletedBalances(w.balances),
                  storeBalances(EmptyMap, w.balances)),
       BatchGroup("blockTxs", {}, Put(EmptyMap, block.height, BlockTxsOf(block))) >>

\* the batch of DisconnectBlockRangeUTXO
DisconnectBatch(d) ==
    << BatchGroup("addresses", d.addrKeys, EmptyMap),
       BatchGroup("blockTxs", d.heights, EmptyMap),
       BatchGroup("height", d.heights, EmptyMap),
       BatchGroup("txAddresses", {}, storeTxAddresses(EmptyMap, d.txAddressesToUpdate)),
       BatchGroup("addressBalance", DeletedBalances(d.balances),
                  storeBalances(EmptyMap, d.balances)),
       BatchGroup("transactions", d.txsToDelete, EmptyMap),
       BatchGroup("txAddresses", d.txsToDelete, EmptyMap) >>

\* a batch that reaches the store only in part: its writes of balances are lost
TornBatch(wb) == SelectSeq(wb, LAMBDA g : g.cf # "addressBalance")

\* d.db.Write hands the whole batch to the store
WrittenBatch(wb) == wb

\* a column after the groups of the batch that are on it, in their order
RECURSIVE Applied(_, _, _)
Applied(column, cf, wb) ==
    IF wb = << >> THEN column
    ELSE IF Head(wb).cf = cf
         THEN Applied(Over(DelAll(column, Head(wb).dels), Head(wb).puts), cf, Tail(wb))
         ELSE Applied(column, cf, Tail(wb))

\* the three columns a reader of balances and transactions goes through
Indexed == << cfAddressBalance, cfTxAddresses, cfAddresses >>

\* writeBlock up to the cleanup of storeAndCleanupBlockTxs: the height goes to the
\* batch and the best height is updated, the block is processed against the store
\* (a read of the store may fail, and the call returns its error), the batch is filled
BeginConnect(block, readOK) ==
    /\ call.pc = "idle"
    /\ isBestHeight' = UpdateBestHeight(block.height)
    /\ UNCHANGED << cols, chain, snap, is, cfDefault, db, scan, codec, cs >>
    /\ IF ~readOK
       THEN /\ call' = NoCall
            /\ last' = [NoLast EXCEPT !.op = "ConnectBlock", !.err = "read",
                                      !.lower = block.height, !.higher = block.height]
       ELSE LET w == processAddressesUTXO(block)
            IN  /\ call' = [pc |-> IF block.height > Keep THEN "cleanup" ELSE "write",
                            op |-> "ConnectBlock", height |-> block.height,
                            rh |-> block.height - Keep, wb |-> ConnectBatch(block, w),
                            before |-> cols,
                            after |-> << storeBalances(cfAddressBalance, w.balances),
                                         storeTxAddresses(cfTxAddresses, w.txAddressesMap),
                                         storeAddresses(cfAddresses, block.height, w.addresses) >>]
                /\ last' = [NoLast EXCEPT !.op = "ConnectBlock", !.lower = block.height,
                                          !.higher = block.height, !.reset = w.reset,
                                          !.doubleSpend = w.doubleSpend, !.notFound = w.notFound,
                                  !.outOfBounds = w.outOfBounds]

\* one turn of the cleanup loop: the record of height rh is read (the read may fail,
\* and the call returns its error); without a record the loop ends, otherwise the
\* record is deleted from the store and the loop goes on below rh while rh < height
CleanupStep(readOK) ==
    /\ call.pc = "cleanup"
    /\ UNCHANGED << cfHeight, cfAddresses, cfTxAddresses, cfAddressBalance, cfTransactions,
                    isBestHeight, chain, snap, is, cfDefault, db, scan, codec, cs >>
    /\ IF ~readOK
       THEN /\ call' = NoCall
            /\ last' = [last EXCEPT !.err = "read"]
            /\ UNCHANGED cfBlockTxs
       ELSE IF ~Has(cfBlockTxs, call.rh) \/ cfBlockTxs[call.rh] = << >>
       THEN /\ call' = [call EXCEPT !.pc = "write"]
            /\ UNCHANGED << cfBlockTxs, last >>
       ELSE /\ cfBlockTxs' = Del(cfBlockTxs, call.rh)
            /\ call' = [call EXCEPT !.rh = call.rh - 1,
                                    !.pc = IF ULess(call.rh - 1, call.height)
                                           THEN "cleanup" ELSE "write"]
            /\ UNCHANGED last

\* DisconnectBlockRangeUTXO up to its d.db.Write: the blockTxs and the transactions
\* of the range are read (a read may fail, and the call returns its error) and the
\* batch is filled; nothing is written before d.db.Write
BeginDisconnect(lower, higher, readOK) ==
    /\ call.pc = "idle"
    /\ UNCHANGED << cols, isBestHeight, chain, snap, is, cfDefault, db, scan, codec, cs >>
    /\ IF ~readOK
       THEN /\ call' = NoCall
            /\ last' = [NoLast EXCEPT !.op = "DisconnectBlockRangeUTXO", !.err = "read",
                                      !.lower = lower, !.higher = higher]
       ELSE IF MissingHeights(lower, higher) # {}
       THEN /\ call' = NoCall
            /\ last' = [NoLast EXCEPT !.op = "DisconnectBlockRangeUTXO", !.err = "rebuild",
                                      !.lower = lower, !.higher = higher,
                                      !.errHeight = FirstMissing(lower, higher)]
       ELSE LET d == processDisconnect(lower, higher)
            IN  IF d.panic
                THEN /\ call' = NoCall
                     /\ last' = [NoLast EXCEPT !.op = "DisconnectBlockRangeUTXO",
                                               !.err = "panic",
                                               !.lower = lower, !.higher = higher,
                                               !.pastLower = d.pastLower]
                ELSE /\ call' = [pc |-> "write", op |-> "DisconnectBlockRangeUTXO",
                                 height |-> higher, rh |-> 0, wb |-> DisconnectBatch(d),
                                 before |-> cols,
                                 after |-> << storeBalances(cfAddressBalance, d.balances),
                                              DelAll(storeTxAddresses(cfTxAddresses,
                                                                      d.txAddressesToUpdate),
                                                     d.txsToDelete),
                                              DelAll(cfAddresses, d.addrKeys) >>]
                     /\ last' = [NoLast EXCEPT !.op = "DisconnectBlockRangeUTXO",
                                               !.lower = lower, !.higher = higher,
                                               !.reset = d.reset]

\* d.db.Write(d.wo, wb): the batch reaches the store as a whole, or the write fails,
\* nothing of the batch reaches the store and the call returns the error
Write(writeOK) ==
    /\ call.pc = "write"
    /\ call' = NoCall
    /\ UNCHANGED << isBestHeight, chain, snap, is, cfDefault, db, scan, codec, cs >>
    /\ IF ~writeOK
       THEN /\ UNCHANGED cols
            /\ last' = [last EXCEPT !.err = "write"]
       ELSE LET wb == WrittenBatch(call.wb)
            IN  /\ cfHeight' = Applied(cfHeight, "height", wb)
                /\ cfAddresses' = Applied(cfAddresses, "addresses", wb)
                /\ cfTxAddresses' = Applied(cfTxAddresses, "txAddresses", wb)
                /\ cfAddressBalance' = Applied(cfAddressBalance, "addressBalance", wb)
                /\ cfBlockTxs' = Applied(cfBlockTxs, "blockTxs", wb)
                /\ cfTransactions' = Applied(cfTransactions, "transactions", wb)
                /\ UNCHANGED last

BeginConnectNext ==
    /\ call.pc = "idle"
    /\ Top < MaxHeight
    /\ \E block \in SoloBlocks(Top + 1), readOK \in BOOLEAN : BeginConnect(block, readOK)

Cleanup == \E readOK \in BOOLEAN : CleanupStep(readOK)

BeginDisconnectRange ==
    /\ call.pc = "idle"
    /\ \E lower \in 0..MaxHeight, higher \in 0..MaxHeight, readOK \in BOOLEAN :
        lower <= higher /\ BeginDisconnect(lower, higher, readOK)

WriteBatch == \E writeOK \in BOOLEAN : Write(writeOK)

NextBatch ==
    \/ BeginConnectNext
    \/ Cleanup
    \/ BeginDisconnectRange
    \/ WriteBatch

\* the writes of connects and disconnects step by step, reads and writes failing or not
SpecBatch == Init /\ [][NextBatch]_vars

\* ------------------------------------------- the transactions of an address

\* bytes.Compare(a, b) < 0: a is a proper prefix of b, or the first byte they differ
\* in is smaller in a
BytesLess(a, b) ==
    \E i \in 1..Len(b) :
        /\ \A j \in 1..(i - 1) : j <= Len(a) /\ a[j] = b[j]
        /\ i > Len(a) \/ a[i] < b[i]

\* the keys of a column that an iterator goes through after Seek(kstart), in its order
RECURSIVE KeysFrom(_, _)
KeysFrom(keys, kstart) ==
    LET rest == {k \in keys : ~BytesLess(k, kstart)}
    IN  IF rest = {} THEN << >>
        ELSE LET first == CHOOSE k \in rest : \A l \in rest : ~BytesLess(l, k)
             IN  <<first>> \o KeysFrom(rest \ {first}, kstart)

\* what fn is called with for an outpoint: a negative index is that of an input
CallOf(o) ==
    IF o.index < 0
    THEN [txid |-> o.btxID, vout |-> -o.index - 1, isOutput |-> FALSE]
    ELSE [txid |-> o.btxID, vout |-> o.index, isOutput |-> TRUE]

\* what the n-th call of fn returns: fn is the sequence of what its first calls
\* return ("ok" for nil, "stop" for a StopIteration, "fail" for another error),
\* the calls after them return nil
FnReturns(fn, n) == IF n <= Len(fn) THEN fn[n] ELSE "ok"

\* a callback error that does not end the iteration
EndsNever(ret) == FALSE

\* a callback error ends the iteration
Ends(ret) == ret # "ok"

\* the loop over the outpoints of one key: r is the scan so far
RECURSIVE ScanOutpoints(_, _, _)
ScanOutpoints(r, outpoints, fn) ==
    IF r.done \/ outpoints = << >> THEN r
    ELSE LET calls == Append(r.calls, CallOf(Head(outpoints)))
             ret == FnReturns(fn, Len(calls))
         IN  IF Ends(ret)
             THEN [calls |-> calls, done |-> TRUE, err |-> IF ret = "stop" THEN "" ELSE ret]
             ELSE ScanOutpoints([r EXCEPT !.calls = calls], Tail(outpoints), fn)

\* the loop over the keys from kstart, until a key is above kstop
RECURSIVE ScanKeys(_, _, _, _)
ScanKeys(r, keys, kstop, fn) ==
    IF r.done \/ keys = << >> THEN r
    ELSE IF BytesLess(kstop, Head(keys)) THEN r
    ELSE ScanKeys(ScanOutpoints(r, cfAddresses[Head(keys)], fn), Tail(keys), kstop, fn)

\* GetAddrDescTransactions(addrDesc, lower, higher, fn): the calls of fn and the error
GetAddrDescTransactions(addrDesc, lower, higher, fn) ==
    ScanKeys([calls |-> << >>, done |-> FALSE, err |-> ""],
             KeysFrom(DOMAIN cfAddresses, packAddressKey(addrDesc, lower)),
             packAddressKey(addrDesc, higher), fn)

\* address descriptors of the scanned chains: one is the other followed by a byte
ScanAddrDescs == {<<1>>, <<1, 0>>, <<2>>}

ScanBlocks(height) ==
    {MkBlock(height, << [txid |-> TxId(height, 1), vin |-> vin, vout |-> <<Output(a, 1)>>] >>) :
        vin \in SoloVins(height), a \in ScanAddrDescs}

\* callbacks: always nil, or a StopIteration or another error at the first or second call
Fns == {<< >>, <<"stop">>, <<"fail">>, <<"ok", "stop">>, <<"ok", "fail">>}

\* scan keeps the last call made on the store as it is: a connect forgets it
ConnectScan ==
    /\ Top < MaxHeight
    /\ \E block \in ScanBlocks(Top + 1) :
        /\ ConnectBlock(block)
        /\ chain' = Put(chain, block.height, ChainEntry(chain, block))
        /\ scan' = NoScan
        /\ UNCHANGED << snap, call, is, cfDefault, db, codec, cs >>

Scan ==
    /\ ~scan.called
    /\ \E addrDesc \in ScanAddrDescs, lower \in 0..MaxHeight, higher \in 0..MaxHeight, fn \in Fns :
         LET r == GetAddrDescTransactions(addrDesc, lower, higher, fn)
         IN  /\ scan' = [called |-> TRUE, addrDesc |-> addrDesc, lower |-> lower,
                         higher |-> higher, fn |-> fn, calls |-> r.calls, err |-> r.err]
             /\ UNCHANGED << cols, isBestHeight, last, chain, snap, call, is, cfDefault, db,
                             codec, cs >>

NextScan ==
    \/ ConnectScan
    \/ Scan

\* blocks are connected and the transactions of addresses are asked for
SpecScan == Init /\ [][NextScan]_vars

\* ----------------------------------------------------- the internal state
\* The internal state is a record of the coin, the state of the database ("closed",
\* "open", "inconsistent") and the columns with their versions; the default column
\* holds it packed under the key internalState.

cfNames == <<"default", "height", "addresses", "txAddresses", "addressBalance", "blockTxs",
             "transactions">>

\* is.Pack() and common.UnpackInternalState: the record keeps what it is given
Pack(state) ==
    [found |-> TRUE, coin |-> state.coin, dbState |-> state.dbState, columns |-> state.columns]
UnpackInternalState(data) ==
    [set |-> TRUE, coin |-> data.coin, dbState |-> data.dbState, columns |-> data.columns]

\* any stored name goes for the coin of the backend
CoinsMatchAny(coin, rpcCoin) == TRUE

\* is.Coin != rpcCoin
CoinsMatch(coin, rpcCoin) == coin = rpcCoin

\* any stored version goes for a column
CompatibleAny(version) == TRUE

\* sc[j].Version != dbVersion
Compatible(version) == version = dbVersion

\* the first stored column of a name, 0 when there is none
StoredColumn(sc, name) ==
    IF \E j \in 1..Len(sc) : sc[j].name = name
    THEN CHOOSE j \in 1..Len(sc) : sc[j].name = name /\ \A k \in 1..(j - 1) : sc[k].name # name
    ELSE 0

\* the columns of cfNames whose stored column has another version than dbVersion
Incompatible(sc) ==
    {i \in 1..Len(cfNames) :
        StoredColumn(sc, cfNames[i]) # 0 /\ ~Compatible(sc[StoredColumn(sc, cfNames[i])].version)}

\* LoadInternalState(rpcCoin): the state it returns and its error
LoadInternalState(rpcCoin) ==
    LET loaded == IF ~cfDefault.found
                  THEN [set |-> TRUE, coin |-> rpcCoin, dbState |-> "closed", columns |-> << >>]
                  ELSE UnpackInternalState(cfDefault)
    IN  IF cfDefault.found /\ loaded.coin # "" /\ ~CoinsMatch(loaded.coin, rpcCoin)
        THEN [err |-> "coins", state |-> NoIs]
        ELSE IF Incompatible(loaded.columns) # {}
        THEN [err |-> "version", state |-> NoIs]
        ELSE [err |-> "",
              state |-> [loaded EXCEPT !.coin = rpcCoin,
                                       !.columns = [i \in 1..Len(cfNames) |->
                                                       [name |-> cfNames[i],
                                                        version |-> dbVersion]]]]

\* the state Close stores as closed: any state
ClosesAny(dbState) == TRUE

\* d.is.DbState == common.DbStateOpen
ClosesOpen(dbState) == dbState = "open"

\* the stored records a database is opened with: coins, states, and columns all of
\* dbVersion, all of the version before, one of them of the version before, or of
\* dbVersion with a column of another name and version before them
Coins == {"Bitcoin", "Zcash"}
ColumnsOf(version) == [i \in 1..Len(cfNames) |-> [name |-> cfNames[i], version |-> version]]
StoredColumns ==
    {<< >>, ColumnsOf(dbVersion), ColumnsOf(dbVersion - 1),
     [ColumnsOf(dbVersion) EXCEPT ![Len(cfNames)].version = dbVersion - 1],
     <<[name |-> "unspentTxs", version |-> dbVersion - 1]>> \o ColumnsOf(dbVersion)}
StoredRecords ==
    {[found |-> TRUE, coin |-> c, dbState |-> st, columns |-> sc] :
        c \in Coins \cup {""}, st \in {"closed", "open", "inconsistent"}, sc \in StoredColumns}

InitState ==
    /\ cfHeight = EmptyMap
    /\ cfAddresses = EmptyMap
    /\ cfTxAddresses = EmptyMap
    /\ cfAddressBalance = EmptyMap
    /\ cfBlockTxs = EmptyMap
    /\ cfTransactions = EmptyMap
    /\ isBestHeight = 0
    /\ last = NoLast
    /\ chain = EmptyMap
    /\ snap = EmptyMap
    /\ call = NoCall
    /\ is = NoIs
    /\ cfDefault \in StoredRecords \cup {NoRecord}
    /\ db = TRUE
    /\ scan = NoScan
    /\ codec = NoCodec
    /\ cs = NoCs

blockVars == << cfHeight, cfAddresses, cfTxAddresses, cfAddressBalance, cfBlockTxs,
                cfTransactions, isBestHeight, chain, snap, call, scan, codec, cs >>

\* the start of the program: LoadInternalState(rpcCoin), and SetInternalState of the
\* state it returns when it returns one
Load(rpcCoin) ==
    /\ db
    /\ ~is.set
    /\ LET r == LoadInternalState(rpcCoin)
       IN  /\ is' = IF r.err = "" THEN r.state ELSE is
           /\ last' = [NoLast EXCEPT !.op = "LoadInternalState", !.err = r.err,
                                     !.coin = rpcCoin]
    /\ UNCHANGED << cfDefault, db, blockVars >>

\* SetInconsistentState(inconsistent)
SetInconsistentState(inconsistent) ==
    /\ db
    /\ UNCHANGED << db, blockVars >>
    /\ IF ~is.set
       THEN /\ UNCHANGED << is, cfDefault >>
            /\ last' = [NoLast EXCEPT !.op = "SetInconsistentState", !.err = "not created",
                                      !.inconsistent = inconsistent]
       ELSE /\ is' = [is EXCEPT !.dbState = IF inconsistent THEN "inconsistent" ELSE "open"]
            /\ cfDefault' = Pack(is')
            /\ last' = [NoLast EXCEPT !.op = "SetInconsistentState",
                                      !.inconsistent = inconsistent]

\* Close
Close ==
    /\ UNCHANGED blockVars
    /\ last' = [NoLast EXCEPT !.op = "Close"]
    /\ IF db
       THEN /\ db' = FALSE
            /\ IF is.set /\ ClosesOpen(is.dbState)
               THEN /\ is' = [is EXCEPT !.dbState = "closed"]
                    /\ cfDefault' = Pack(is')
               ELSE UNCHANGED << is, cfDefault >>
       ELSE UNCHANGED << db, is, cfDefault >>

LoadState == \E rpcCoin \in Coins : Load(rpcCoin)

SetInconsistent == \E inconsistent \in BOOLEAN : SetInconsistentState(inconsistent)

NextState ==
    \/ LoadState
    \/ SetInconsistent
    \/ Close

\* a database with some internal state record is opened, marked and closed
SpecState == InitState /\ [][NextState]_vars

\* --------------------------------------------------- a payment with change
\* block 0 holds one transaction without inputs that pays one address; block 1 holds
\* one transaction that spends that output and pays two outputs

SpendAddrDescs == {<<1>>, <<2>>}
SpendValues == {20, 30, 50}

FundingBlocks ==
    {MkBlock(0, << [txid |-> TxId(0, 1), vin |-> << >>, vout |-> <<Output(a, v)>>] >>) :
        a \in SpendAddrDescs, v \in SpendValues}

SpendingBlocks ==
    {MkBlock(1, << [txid |-> TxId(1, 1), vin |-> <<Outpoint(TxId(0, 1), 0)>>,
                    vout |-> <<Output(a, v), Output(b, u)>>] >>) :
        a \in SpendAddrDescs, v \in SpendValues, b \in SpendAddrDescs, u \in SpendValues}

ConnectFunding == Top = -1 /\ \E block \in FundingBlocks : ConnectNext(block)

ConnectSpending == Top = 0 /\ \E block \in SpendingBlocks : ConnectNext(block)

NextSpend ==
    \/ ConnectFunding
    \/ ConnectSpending

SpecSpend == Init /\ [][NextSpend]_vars

\* ------------------------------------------------ outputs of all kinds
\* blocks of one transaction with a coinbase input and two outputs, whose scripts
\* decode or not, to a descriptor that is empty, short, of maxAddrDescLen bytes or of
\* one byte more

LongAddrDesc(n) == [i \in 1..n |-> 7]

VoutAddrDescs == {<< >>, <<1>>, LongAddrDesc(maxAddrDescLen), LongAddrDesc(maxAddrDescLen + 1)}

Vouts(valueSat) ==
    {[addrDesc |-> a, err |-> e, valueSat |-> valueSat] : a \in VoutAddrDescs, e \in BOOLEAN}

VoutBlocks(height) ==
    {MkBlock(height, << [txid |-> TxId(height, 1), vin |-> <<Outpoint(0, 0)>>,
                         vout |-> <<o1, o2>>] >>) : o1 \in Vouts(1), o2 \in Vouts(2)}

\* the record of what is connected, with the outputs as the block has them
VoutEntry(block) ==
    [i \in 1..Len(block.txs) |->
        [txid |-> block.txs[i].txid, vout |-> block.txs[i].vout,
         outs |-> TxOutputs(block.txs[i]), ins |-> << >>]]

ConnectVout ==
    /\ Top < MaxPairHeight
    /\ \E block \in VoutBlocks(Top + 1) :
        /\ ConnectBlock(block)
        /\ chain' = Put(chain, block.height, VoutEntry(block))
        /\ UNCHANGED << snap, sideVars >>

NextVout == ConnectVout

SpecVout == Init /\ [][NextVout]_vars

\* ------------------------------------------------ cached transactions

\* PutTx(tx, height, blockTime): the packed transaction goes to the transactions
\* column under its txid; of the packed transaction the model keeps the height
PutTx(txid, height) ==
    /\ cfTransactions' = Put(cfTransactions, txid, [height |-> height])
    /\ UNCHANGED << cfHeight, cfAddresses, cfTxAddresses, cfAddressBalance, cfBlockTxs,
                    isBestHeight, chain, snap, sideVars >>
    /\ last' = [NoLast EXCEPT !.op = "PutTx", !.lower = height, !.higher = height]

\* the transaction of a connected block is cached
CacheTx ==
    \E height \in DOMAIN cfHeight :
        ~Has(cfTransactions, TxId(height, 1)) /\ PutTx(TxId(height, 1), height)

NextCache ==
    \/ Connect
    \/ CacheTx
    \/ DisconnectRange

\* blocks are connected, their transactions cached, ranges of blocks disconnected
SpecCache == Init /\ [][NextCache]_vars

\* ------------------------------------------------ inputs with nothing to spend

\* blocks of one transaction with one output and two inputs, each input a coinbase
\* input, one naming a transaction that does not exist, or one naming output 0 or
\* the missing output 1 of an earlier transaction
SkipRefs(height) ==
    {Outpoint(0, 0), Outpoint(TxId(height, 2), 0)}
        \cup {Outpoint(TxId(k, 1), n) : k \in 0..(height - 1), n \in 0..1}

SkipBlocks(height) ==
    {MkBlock(height, << [txid |-> TxId(height, 1), vin |-> <<r1, r2>>,
                         vout |-> <<Output(a, v)>>] >>) :
        r1 \in SkipRefs(height), r2 \in SkipRefs(height), a \in AddrDescs, v \in Values}

ConnectSkip == Top < MaxPairHeight /\ \E block \in SkipBlocks(Top + 1) : ConnectNext(block)

NextSkip == ConnectSkip

SpecSkip == Init /\ [][NextSkip]_vars

\* ------------------------------------------------ spends within a block

\* blocks of two transactions, each with one output to an address and one input: a
\* coinbase input or one spending the output of the other transaction of the block,
\* which stands before or after it in the block; the two do not spend each other
InBlockVins(height, i) == {<<Outpoint(0, 0)>>, <<Outpoint(TxId(height, 3 - i), 0)>>}

InBlockTxs(height, i) ==
    {[txid |-> TxId(height, i), vin |-> vin, vout |-> <<Output(a, v)>>] :
        vin \in InBlockVins(height, i), a \in AddrDescs \ {<< >>}, v \in Values}

InBlockBlocks(height) ==
    {MkBlock(height, <<t[1], t[2]>>) :
        t \in {t \in InBlockTxs(height, 1) \X InBlockTxs(height, 2) :
                    t[1].vin[1].txid = 0 \/ t[2].vin[1].txid = 0}}

\* snap keeps, per height, whether the last connect at that height reset an amount
ConnectInBlock ==
    /\ Top < MaxPairHeight
    /\ \E block \in InBlockBlocks(Top + 1) :
        /\ ConnectBlock(block)
        /\ chain' = Put(chain, block.height, ChainEntry(chain, block))
        /\ snap' = Put(snap, block.height, last'.reset)
        /\ UNCHANGED sideVars

NextInBlock ==
    \/ ConnectInBlock
    \/ DisconnectRange

SpecInBlock == Init /\ [][NextInBlock]_vars

\* ------------------------------------------------ blocks without transactions

\* blocks of no transaction, whose blockTxs record is empty, and blocks of one
\* coinbase transaction
GapBlocks(height) ==
    {MkBlock(height, << >>)}
        \cup {MkBlock(height, << [txid |-> TxId(height, 1), vin |-> <<Outpoint(0, 0)>>,
                                  vout |-> <<Output(a, v)>>] >>) :
                    a \in AddrDescs, v \in Values}

ConnectGap == Top < MaxGapHeight /\ \E block \in GapBlocks(Top + 1) : ConnectNext(block)

NextGap == ConnectGap

SpecGap == Init /\ [][NextGap]_vars

\* ------------------------------------------------ account chains (non-UTXO)

GetAddrDescFromAddress(a) == [addrDesc |-> a.addrDesc, err |-> a.err]

\* addAddrDescToRecords with opInsert
addAddrDescToRecords(records, addrDesc, btxid, vout) ==
    IF Len(addrDesc) > 0 /\ ~(Len(addrDesc) > maxAddrDescLen)
    THEN Put(records, addrDesc,
             Append(IF Has(records, addrDesc) THEN records[addrDesc] ELSE << >>,
                    [btxID |-> btxid, index |-> vout]))
    ELSE records

\* the outputs of a transaction: index output.N
RECURSIVE AddOutputs(_, _, _, _)
AddOutputs(records, btxID, vout, k) ==
    IF k > Len(vout) THEN records
    ELSE LET r == GetAddrDescFromVout(vout[k])
         IN  AddOutputs(IF r.err THEN records
                        ELSE addAddrDescToRecords(records, r.addrDesc, btxID, vout[k].n),
                        btxID, vout, k + 1)

\* the addresses of one input: index ^i, i the position of the address in the input
RECURSIVE AddInputAddresses(_, _, _, _)
AddInputAddresses(records, btxID, addresses, i) ==
    IF i >= Len(addresses) THEN records
    ELSE LET r == GetAddrDescFromAddress(addresses[i + 1])
         IN  AddInputAddresses(IF r.err THEN records
                               ELSE addAddrDescToRecords(records, r.addrDesc, btxID, -i - 1),
                               btxID, addresses, i + 1)

RECURSIVE AddInputs(_, _, _, _)
AddInputs(records, btxID, vin, k) ==
    IF k > Len(vin) THEN records
    ELSE AddInputs(AddInputAddresses(records, btxID, vin[k].addresses, 0), btxID, vin, k + 1)

\* the records of writeAddressesNonUTXO: per address the outpoints of the block
RECURSIVE AddressRecords(_, _, _)
AddressRecords(records, txs, k) ==
    IF k > Len(txs) THEN records
    ELSE AddressRecords(AddInputs(AddOutputs(records, txs[k].txid, txs[k].vout, 1),
                                  txs[k].txid, txs[k].vin, 1), txs, k + 1)

\* writeAddressesNonUTXO with opInsert: one key per address at the block height
writeAddressesNonUTXO(column, block) ==
    storeAddresses(column, block.height, AddressRecords(EmptyMap, block.txs, 1))

\* ConnectBlock on an account chain: writeBlock(block, opInsert)
ConnectBlockNonUTXO(block) ==
    /\ cfHeight' = Put(cfHeight, block.height, BlockInfoOf(block))
    /\ isBestHeight' = UpdateBestHeight(block.height)
    /\ cfAddresses' = writeAddressesNonUTXO(cfAddresses, block)
    /\ UNCHANGED << cfTxAddresses, cfAddressBalance, cfBlockTxs, cfTransactions >>
    /\ last' = [NoLast EXCEPT !.op = "ConnectBlock", !.lower = block.height,
                              !.higher = block.height]

\* a test that takes every key from the lower height on
InScanRangeFromLower(key, lower, higher) ==
    /\ Len(key) > packedHeightBytes
    /\ LET height == unpackUint(SubSeq(key, Len(key) - packedHeightBytes + 1, Len(key)))
       IN  ~ULess(height, lower)

\* the test of allAddressesScan on a key: longer than a height, and its height in range
InScanRange(key, lower, higher) ==
    /\ Len(key) > packedHeightBytes
    /\ LET height == unpackUint(SubSeq(key, Len(key) - packedHeightBytes + 1, Len(key)))
       IN  ~ULess(height, lower) /\ ~ULess(higher, height)

\* allAddressesScan: the keys of the whole address column that pass the test. The
\* columns here hold fewer than refreshIterator keys, so the scan is its first
\* round alone; AddressesScanRounds is the scan with its later rounds.
allAddressesScan(lower, higher) ==
    {key \in DOMAIN cfAddresses : InScanRange(key, lower, higher)}

DisconnectBlockRangeNonUTXO(lower, higher) ==
    /\ cfAddresses' = DelAll(cfAddresses, allAddressesScan(lower, higher))
    /\ cfHeight' = DelAll(cfHeight, lower..higher)
    /\ UNCHANGED << cfTxAddresses, cfAddressBalance, cfBlockTxs, cfTransactions, isBestHeight >>
    /\ last' = [NoLast EXCEPT !.op = "DisconnectBlockRangeNonUTXO", !.lower = lower,
                              !.higher = higher]

\* transactions of an account chain: one output, and one input with one or two
\* addresses or two inputs with one address each
AccountAddrDescs == {<<1>>, <<2>>}

Address(a) == [addrDesc |-> a, err |-> FALSE]

AccountVins ==
    {<< [addresses |-> <<Address(a)>>] >> : a \in AccountAddrDescs}
        \cup {<< [addresses |-> <<Address(a), Address(b)>>] >> :
                    a \in AccountAddrDescs, b \in AccountAddrDescs}
        \cup {<< [addresses |-> <<Address(a)>>], [addresses |-> <<Address(b)>>] >> :
                    a \in AccountAddrDescs, b \in AccountAddrDescs}

AccountBlocks(height) ==
    {MkBlock(height, << [txid |-> TxId(height, 1), vin |-> vin,
                         vout |-> << [n |-> 0, addrDesc |-> a, err |-> FALSE, valueSat |-> 1] >>] >>) :
        vin \in AccountVins, a \in AddrDescs}

\* chain keeps the transactions of the connected blocks
ConnectAccount ==
    /\ Top < MaxPairHeight
    /\ \E block \in AccountBlocks(Top + 1) :
        /\ ConnectBlockNonUTXO(block)
        /\ chain' = Put(chain, block.height, block.txs)
        /\ UNCHANGED << snap, sideVars >>

DisconnectAccountRange ==
    \E lower \in 0..MaxPairHeight, higher \in 0..MaxPairHeight :
        /\ DisconnectBlockRangeNonUTXO(lower, higher)
        /\ chain' = DelAll(chain, lower..higher)
        /\ UNCHANGED << snap, sideVars >>

NextAccount ==
    \/ ConnectAccount
    \/ CacheTx
    \/ DisconnectAccountRange

SpecAccount == Init /\ [][NextAccount]_vars

\* ------------------------------------------------------ full scans of columns
\* A column is the sequence of its records in key order, each a key and a value
\* of bytes. cs.it is the position of the iterator in the column (valid while it
\* is at a record), cs.stats the column statistics of the internal state,
\* cs.returned what computeColumnSize returned per column, cs.visited the keys it
\* read per column, cs.sig the delivery of the signal.

\* it.Seek(seekKey): the position of the first record with a key >= seekKey
SeekIndex(col, seekKey) ==
    LET at == {i \in 1..Len(col) : ~BytesLess(col[i].key, seekKey)}
    IN  IF at = {} THEN Len(col) + 1 ELSE CHOOSE i \in at : \A j \in at : i <= j

\* the iterator of a round: SeekToFirst on the first round, else Seek(seekKey) and Next
Reopen(col, rows, seekKey) ==
    IF rows = 0 THEN 1 ELSE SeekIndex(col, seekKey) + 1

\* key = it.Key().Data() is a slice over the memory of the iterator, not a copy,
\* and that memory is the iterator's to change at it.Next(). Read after the
\* it.Next() that ends the inner loop it gives the key as it was where the
\* memory was left alone, and the bytes of the key the iterator holds now where
\* the iterator reused it (reused); past the last record nothing is written.
KeyAfterNext(col, it, key, reused) ==
    IF reused /\ it <= Len(col)
        THEN [i \in 1..Len(key) |-> IF i <= Len(col[it].key) THEN col[it].key[i] ELSE key[i]]
        ELSE key

\* select { case <-stopCompute: ... default: }
Stopped(stop) == stop

\* allAddressesScan reopening its iterator every thr keys: the keys read and
\* the keys taken, from total keys read so far
RECURSIVE AddressesScanRounds(_, _, _, _, _, _, _, _)
AddressesScanRounds(col, thr, reused, lower, higher, total, seekKey, acc) ==
    LET start == Reopen(col, total, seekKey)
        last1 == IF start + thr - 1 < Len(col) THEN start + thr - 1 ELSE Len(col)
        read == SubSeq(col, start, last1)
        keys == [i \in 1..Len(read) |-> read[i].key]
        acc1 == [visited |-> acc.visited \o keys,
                 addrKeys |-> acc.addrKeys
                                \o SelectSeq(keys, LAMBDA k : InScanRange(k, lower, higher))]
        valid == last1 < Len(col)
    IN  IF ~valid THEN acc1
        ELSE AddressesScanRounds(col, thr, reused, lower, higher, total + Len(read),
                                 KeyAfterNext(col, last1 + 1,
                                              IF read = << >> THEN << >>
                                              ELSE read[Len(read)].key, reused),
                                 acc1)

\* computeColumnSize entered for column c: the first iterator is opened
EnterColumn(st, c) ==
    [st EXCEPT !.c = c, !.rows = 0, !.keysSum = 0, !.valuesSum = 0, !.seekKey = << >>,
               !.it = Reopen(st.cols[c], 0, << >>), !.count = 0, !.key = << >>]

\* d.is.SetDBColumnStats(c, rows, keysSum, valuesSum)
SetDBColumnStats(stats, c, rows, keysSum, valuesSum) ==
    [stats EXCEPT ![c] = [rows |-> rows, keyBytes |-> keysSum, valueBytes |-> valuesSum]]

\* the statistics the internal state holds before they are computed
StaleStats == [rows |-> -1, keyBytes |-> -1, valueBytes |-> -1]

\* the records of column c when it holds n of them: keys of one byte and a
\* height, values of 1..n bytes
ColumnOf(c, n) == [k \in 1..n |-> [key |-> << c >> \o packUint(k), value |-> [i \in 1..k |-> c]]]

Thresholds == (1..MaxRefresh) \cup {refreshIterator}

\* the first three columns hold records, of one size or of three sizes, the
\* columns after them are empty
ColumnSizes ==
    {[c \in 1..Len(cfNames) |-> IF c <= 3 THEN (n + c * d) % (MaxRows + 1) ELSE 0] :
        n \in 0..MaxRows, d \in 0..1}

InitStats ==
    /\ cfHeight = EmptyMap
    /\ cfAddresses = EmptyMap
    /\ cfTxAddresses = EmptyMap
    /\ cfAddressBalance = EmptyMap
    /\ cfBlockTxs = EmptyMap
    /\ cfTransactions = EmptyMap
    /\ isBestHeight = 0
    /\ last = NoLast
    /\ chain = EmptyMap
    /\ snap = EmptyMap
    /\ call = NoCall
    /\ is = NoIs
    /\ cfDefault = NoRecord
    /\ db = TRUE
    /\ scan = NoScan
    /\ codec = NoCodec
    /\ \E thr \in Thresholds, sizes \in ColumnSizes :
          cs = [NoCs EXCEPT !.thr = thr,
                            !.cols = [c \in 1..Len(cfNames) |-> ColumnOf(c, sizes[c])],
                            !.stats = [c \in 1..Len(cfNames) |-> StaleStats],
                            !.returned = [c \in 1..Len(cfNames) |-> << >>],
                            !.visited = [c \in 1..Len(cfNames) |-> << >>]]

statVars == << cols, isBestHeight, last, chain, snap, call, is, cfDefault, db, scan, codec >>

\* allAddressesScan(lower, higher) on the address column
ScanAddresses ==
    /\ cs.pc = "idle"
    /\ ~cs.scanned
    /\ \E lower \in {0, 2}, higher \in {1, MaxRows}, reused \in BOOLEAN :
          LET r == AddressesScanRounds(cs.cols[3], cs.thr, reused, lower, higher, 0, << >>,
                                       [visited |-> << >>, addrKeys |-> << >>])
          IN  cs' = [cs EXCEPT !.scanned = TRUE, !.addrKeys = r.addrKeys,
                               !.addrVisited = r.visited,
                               !.lower = lower, !.higher = higher]
    /\ UNCHANGED statVars

\* ComputeInternalStateColumnStats is called: computeColumnSize of the first column
ComputeStats ==
    /\ cs.pc = "idle"
    /\ cs' = [EnterColumn(cs, 1) EXCEPT !.pc = "loop"]
    /\ UNCHANGED statVars

\* the signal is put on stopCompute
Signal ==
    /\ cs.pc = "loop"
    /\ ~cs.sig.sent
    /\ cs' = [cs EXCEPT !.stop = TRUE,
                         !.sig = [sent |-> TRUE, col |-> cs.c,
                                  unread |-> cs.it <= Len(cs.cols[cs.c]), further |-> 0]]
    /\ UNCHANGED statVars

\* one turn of the inner loop of computeColumnSize, or the end of the round
\* when the iterator is past the last record or has read thr records
ColumnStep ==
    /\ cs.pc = "loop"
    /\ \E reused \in BOOLEAN :
       LET col == cs.cols[cs.c]
           seekKey == KeyAfterNext(col, cs.it, cs.key, reused)
       IN  IF cs.it <= Len(col) /\ cs.count < cs.thr
           THEN IF Stopped(cs.stop)
                THEN cs' = [cs EXCEPT !.pc = "done", !.err = "Interrupted", !.stop = FALSE,
                                      !.it = 0]
                ELSE cs' = [cs EXCEPT !.key = col[cs.it].key,
                                      !.count = cs.count + 1,
                                      !.rows = cs.rows + 1,
                                      !.keysSum = cs.keysSum + Len(col[cs.it].key),
                                      !.valuesSum = cs.valuesSum + Len(col[cs.it].value),
                                      !.it = cs.it + 1,
                                      !.visited[cs.c] = Append(cs.visited[cs.c], col[cs.it].key),
                                      !.sig.further = IF cs.sig.sent THEN cs.sig.further + 1
                                                      ELSE 0]
           ELSE IF cs.it <= Len(col)
                THEN cs' = [cs EXCEPT !.seekKey = seekKey, !.key = << >>, !.count = 0,
                                      !.it = Reopen(col, cs.rows, seekKey)]
                ELSE LET done == [cs EXCEPT
                                    !.returned[cs.c] = << cs.rows, cs.keysSum, cs.valuesSum >>,
                                    !.stats = SetDBColumnStats(cs.stats, cs.c, cs.rows,
                                                               cs.keysSum, cs.valuesSum)]
                     IN  IF cs.c < Len(cfNames)
                         THEN cs' = EnterColumn(done, cs.c + 1)
                         ELSE cs' = [done EXCEPT !.pc = "done", !.err = "", !.it = 0]
    /\ UNCHANGED statVars

NextStats ==
    \/ ScanAddresses
    \/ ComputeStats
    \/ Signal
    \/ ColumnStep

SpecStats == InitStats /\ [][NextStats]_vars

\* the scan goes on as long as it has a step to take
SpecStatsFair == SpecStats /\ WF_vars(ColumnStep)

\* ------------------------------------------------------ variable length integers
\* vlq.PutUint and vlq.Uint: groups of seven bits, the most significant group
\* first, every byte but the last with its top bit set.

RECURSIVE VlqGroups(_)
VlqGroups(x) == IF x < 128 THEN << x >> ELSE Append(VlqGroups(x \div 128), x % 128)

packVaruint(i) ==
    LET g == VlqGroups(i)
    IN  [k \in 1..Len(g) |-> IF k < Len(g) THEN g[k] + 128 ELSE g[k]]

\* the value and the number of bytes read; 0 and 0 where the bytes end first
RECURSIVE VlqRead(_, _, _)
VlqRead(buf, k, acc) ==
    IF k > Len(buf) THEN [v |-> 0, l |-> 0]
    ELSE IF buf[k] < 128 THEN [v |-> acc * 128 + buf[k], l |-> k]
    ELSE VlqRead(buf, k + 1, acc * 128 + (buf[k] - 128))

unpackVaruint(buf) == VlqRead(buf, 1, 0)

\* vlq.PutInt and vlq.Int: the value shifted left by one bit, complemented when
\* negative, so that the lowest bit is the sign
packVarint(i) == packVaruint(IF i < 0 THEN -(2 * i) - 1 ELSE 2 * i)

unpackVarint(buf) ==
    LET u == unpackVaruint(buf)
    IN  [v |-> IF u.v % 2 = 1 THEN -(u.v \div 2) - 1 ELSE u.v \div 2, l |-> u.l]

\* ------------------------------------------------------ the codecs, applied

\* number of bytes in a big.Word of the 64-bit build
wordBytes == 8

\* max packed bigint words
maxPackedBigintWords == (256 - wordBytes) \div wordBytes

maxPackedBigintBytes == 249

RECURSIVE SkipLeadingZeros(_)
\* the bytes of a word or of a buffer from its first non-zero byte on
SkipLeadingZeros(bytes) ==
    IF bytes # << >> /\ bytes[1] = 0 THEN SkipLeadingZeros(Tail(bytes)) ELSE bytes

\* the most significant word written whole, leading zero bytes included
SignificantBytesAll(w0) == w0

\* the bytes of the most significant word that packBigint writes
SignificantBytes(w0) == SkipLeadingZeros(w0)

\* big.Int.SetBytes: the value of a big-endian magnitude, held as the magnitude
\* without leading zero bytes
SetBytes(buf) == SkipLeadingZeros(buf)

\* big.Int.Bits: the words of a magnitude, least significant word first, each
\* word as its wordBytes bytes in big-endian order
Bits(bi) ==
    LET lw == (Len(bi) + wordBytes - 1) \div wordBytes
        padded == [i \in 1..(lw * wordBytes - Len(bi)) |-> 0] \o bi
    IN  [j \in 1..lw |->
            SubSeq(padded, (lw - j) * wordBytes + 1, (lw - j + 1) * wordBytes)]

RECURSIVE PackWords(_, _, _)
\* the words w[j] down to w[s] (counted from zero) in reverse order
PackWords(w, j, s) ==
    IF j < s THEN << >> ELSE w[j + 1] \o PackWords(w, j - 1, s)

\* packBigint: the buffer written and the number of written bytes
packBigint(bi) ==
    LET w == Bits(bi)
        lw == Len(w)
    IN  IF lw = 0
        THEN [buf |-> << 0 >>, n |-> 1]
        ELSE LET top == SignificantBytes(w[lw])
                 s == IF lw > maxPackedBigintWords THEN lw - maxPackedBigintWords ELSE 0
                 fb == Len(top) + wordBytes * (lw - 1 - s)
             IN  [buf |-> << fb % 256 >> \o top \o PackWords(w, lw - 2, s), n |-> fb + 1]

\* unpackBigint: the value and the number of bytes consumed
unpackBigint(buf) ==
    LET l == buf[1] + 1
    IN  [r |-> SetBytes(SubSeq(buf, 2, l)), l |-> l]

\* unpackAddressKey
unpackAddressKey(key) ==
    LET i == Len(key) - packedHeightBytes
    IN  IF i <= 0
        THEN [addrDesc |-> << >>, height |-> 0, err |-> "Invalid address key"]
        ELSE [addrDesc |-> SubSeq(key, 1, i),
              height |-> unpackUint(SubSeq(key, i + 1, i + packedHeightBytes)),
              err |-> ""]

\* appendTxInput
appendTxInput(txi) ==
    packVaruint(Len(txi.addrDesc)) \o txi.addrDesc \o packBigint(txi.valueSat).buf

\* an output written with the length of its address as it is, spent or not
appendTxOutputLength(txo) ==
    packVarint(Len(txo.addrDesc)) \o txo.addrDesc \o packBigint(txo.valueSat).buf

\* appendTxOutput: la = ^la when the output is spent
appendTxOutput(txo) ==
    LET la == IF txo.spent THEN -Len(txo.addrDesc) - 1 ELSE Len(txo.addrDesc)
    IN  packVarint(la) \o txo.addrDesc \o packBigint(txo.valueSat).buf

RECURSIVE AppendAll(_, _, _)
\* buf after append(items[k]) for every k from i on
AppendAll(append(_), items, i) ==
    IF i > Len(items) THEN << >> ELSE append(items[i]) \o AppendAll(append, items, i + 1)

packTxAddresses(ta) ==
    packVaruint(ta.height)
        \o packVaruint(Len(ta.inputs)) \o AppendAll(appendTxInput, ta.inputs, 1)
        \o packVaruint(Len(ta.outputs)) \o AppendAll(appendTxOutput, ta.outputs, 1)

\* unpackTxInput: the input and the number of bytes read
unpackTxInput(buf) ==
    LET u == unpackVaruint(buf)
        al == u.v + u.l
        v == unpackBigint(SubSeq(buf, al + 1, Len(buf)))
    IN  [item |-> [addrDesc |-> SubSeq(buf, u.l + 1, u.l + u.v), valueSat |-> v.r],
         l |-> v.l + al]

\* unpackTxOutput: a negative length is a spent output, al = ^al
unpackTxOutput(buf) ==
    LET u == unpackVarint(buf)
        spent == u.v < 0
        len == IF spent THEN -u.v - 1 ELSE u.v
        al == len + u.l
        v == unpackBigint(SubSeq(buf, al + 1, Len(buf)))
    IN  [item |-> [addrDesc |-> SubSeq(buf, u.l + 1, u.l + len), spent |-> spent,
                   valueSat |-> v.r],
         l |-> v.l + al]

RECURSIVE UnpackAll(_, _, _, _, _)
\* n items read with unpack from offset l on: the items and the offset after them
UnpackAll(unpack(_), buf, l, n, items) ==
    IF n = 0 THEN [items |-> items, l |-> l]
    ELSE LET u == unpack(SubSeq(buf, l + 1, Len(buf)))
         IN  UnpackAll(unpack, buf, l + u.l, n - 1, Append(items, u.item))

unpackTxAddresses(buf) ==
    LET height == unpackVaruint(buf)
        inputs == unpackVaruint(SubSeq(buf, height.l + 1, Len(buf)))
        ins == UnpackAll(unpackTxInput, buf, height.l + inputs.l, inputs.v, << >>)
        outputs == unpackVaruint(SubSeq(buf, ins.l + 1, Len(buf)))
        outs == UnpackAll(unpackTxOutput, buf, ins.l + outputs.l, outputs.v, << >>)
    IN  [height |-> height.v, inputs |-> ins.items, outputs |-> outs.items]

\* the magnitudes packed: of 0, 1, 2, 31, 32 and 33 words, the top word of one
\* to eight significant bytes, the bytes below the top one zero or all different
WordCounts == {0, 1, 2, maxPackedBigintWords, maxPackedBigintWords + 1, maxPackedBigintWords + 2}

TopBytes == {1, 128, 255}

Magnitude(lw, fb, top, fill) ==
    [i \in 1..(fb + wordBytes * (lw - 1)) |->
        IF i = 1 THEN top ELSE IF fill THEN (i * 7) % 256 ELSE 0]

Bigints ==
    {<< >>} \cup {Magnitude(lw, fb, top, fill) :
                    lw \in WordCounts \ {0}, fb \in 1..wordBytes, top \in TopBytes,
                    fill \in BOOLEAN}

\* the descriptors and heights packed into address keys
KeyAddrDescs ==
    {<< >>, << 0 >>, << 1 >>, << 255, 0 >>, [i \in 1..maxAddrDescLen |-> i % 256]}

KeyHeights == {0, 1, 255, 256, 65536, 16777216, 2147483647, -2147483647, -1}

\* the records of transaction addresses packed: of no, one and two inputs and
\* outputs, the address descriptors empty, of lengths whose (complemented)
\* length takes one and two bytes, and of maxAddrDescLen bytes, the values zero,
\* small, of 248 bytes and of 249, the heights packed in one and in two bytes
TaAddrDescs ==
    {<< >>, << 7 >>, [i \in 1..63 |-> i], [i \in 1..64 |-> i],
     [i \in 1..maxAddrDescLen |-> i % 256]}

TaValues ==
    {<< >>, << 1 >>, Magnitude(maxPackedBigintWords, wordBytes, 255, TRUE),
     Magnitude(maxPackedBigintWords + 1, 1, 1, FALSE)}

TaInputs ==
    LET one == {[addrDesc |-> a, valueSat |-> v] : a \in TaAddrDescs, v \in TaValues}
    IN  {<< >>} \cup {<< i >> : i \in one}
            \cup {<< i, [addrDesc |-> [k \in 1..64 |-> k], valueSat |-> << 1 >>] >> : i \in one}

TaOutputs ==
    LET one == {[addrDesc |-> a, spent |-> sp, valueSat |-> v] :
                    a \in TaAddrDescs, sp \in BOOLEAN, v \in TaValues}
    IN  {<< >>} \cup {<< o >> : o \in one}
            \cup {<< o, [addrDesc |-> << >>, spent |-> TRUE, valueSat |-> << >>] >> : o \in one}

TaHeights == {0, 128}

CodecInputs ==
    {[NoCodec EXCEPT !.op = "bigint", !.bi = bi] : bi \in Bigints}
        \cup {[NoCodec EXCEPT !.op = "key", !.addrDesc = a, !.h1 = h1, !.h2 = h2] :
                a \in KeyAddrDescs, h1 \in KeyHeights, h2 \in KeyHeights}
        \cup {[NoCodec EXCEPT !.op = "txAddresses",
                              !.ta = [height |-> h, inputs |-> ins, outputs |-> outs]] :
                h \in TaHeights, ins \in TaInputs, outs \in TaOutputs}

InitCodec ==
    /\ cfHeight = EmptyMap
    /\ cfAddresses = EmptyMap
    /\ cfTxAddresses = EmptyMap
    /\ cfAddressBalance = EmptyMap
    /\ cfBlockTxs = EmptyMap
    /\ cfTransactions = EmptyMap
    /\ isBestHeight = 0
    /\ last = NoLast
    /\ chain = EmptyMap
    /\ snap = EmptyMap
    /\ call = NoCall
    /\ is = NoIs
    /\ cfDefault = NoRecord
    /\ db = TRUE
    /\ scan = NoScan
    /\ codec \in CodecInputs
    /\ cs = NoCs

\* packBigint, then unpackBigint of what it wrote
PackBigint ==
    /\ codec.op = "bigint"
    /\ LET p == packBigint(codec.bi)
           u == unpackBigint(p.buf)
       IN  codec' = [codec EXCEPT !.op = "packBigint", !.buf = p.buf, !.n = p.n,
                                  !.r = u.r, !.l = u.l]
    /\ UNCHANGED << cols, isBestHeight, last, chain, snap, call, is, cfDefault, db, scan, cs >>

\* packAddressKey of one descriptor at two heights, then unpackAddressKey of the
\* first key
PackAddressKey ==
    /\ codec.op = "key"
    /\ LET key == packAddressKey(codec.addrDesc, codec.h1)
           u == unpackAddressKey(key)
       IN  codec' = [codec EXCEPT !.op = "packAddressKey", !.key1 = key,
                                  !.key2 = packAddressKey(codec.addrDesc, codec.h2),
                                  !.unpacked = u.addrDesc, !.height = u.height,
                                  !.err = u.err]
    /\ UNCHANGED << cols, isBestHeight, last, chain, snap, call, is, cfDefault, db, scan, cs >>

\* packTxAddresses, then unpackTxAddresses of what it wrote
PackTxAddresses ==
    /\ codec.op = "txAddresses"
    /\ LET buf == packTxAddresses(codec.ta)
       IN  codec' = [codec EXCEPT !.op = "packTxAddresses", !.buf = buf,
                                  !.unpacked = unpackTxAddresses(buf)]
    /\ UNCHANGED << cols, isBestHeight, last, chain, snap, call, is, cfDefault, db, scan, cs >>

NextCodec ==
    \/ PackBigint
    \/ PackAddressKey
    \/ PackTxAddresses

SpecCodec == InitCodec /\ [][NextCodec]_vars

\* ------------------------------------------------------ block info
\* A block time is an int64, kept as its high and its low 32 bit word. The
\* height column holds the block info as packBlockInfo is given it, the time
\* already cut to uint32 (BlockInfoOf); GetBlockInfo reads it back through the
\* bytes.

\* chainParser.PackBlockHash: the hash in PackedTxidLen bytes
PackBlockHash(hash) ==
    [k \in 1..PackedTxidLen |-> IF k = PackedTxidLen THEN hash % 256 ELSE (hash \div 256) % 256]

RECURSIVE UnpackBlockHash(_)
UnpackBlockHash(buf) ==
    IF buf = << >> THEN 0 ELSE UnpackBlockHash(SubSeq(buf, 1, Len(buf) - 1)) * 256 + buf[Len(buf)]

packBlockInfo(info) ==
    PackBlockHash(info.hash) \o packUint(info.time) \o packVaruint(info.txs)
        \o packVaruint(info.size)

NilBlockInfo ==
    [found |-> FALSE, hash |-> 0, time |-> [hi |-> 0, lo |-> 0], txs |-> 0, size |-> 0,
     height |-> 0]

\* Time: int64(t) of the uint32 read has a high word of 0. Height is not packed.
unpackBlockInfo(buf) ==
    LET pl == PackedTxidLen
    IN  IF Len(buf) < pl + 4 + 2 THEN NilBlockInfo
        ELSE LET t == unpackUint(SubSeq(buf, pl + 1, pl + 4))
                 txs == unpackVaruint(SubSeq(buf, pl + 5, Len(buf)))
                 size == unpackVaruint(SubSeq(buf, pl + 5 + txs.l, Len(buf)))
             IN  [found |-> TRUE, hash |-> UnpackBlockHash(SubSeq(buf, 1, pl)),
                  time |-> [hi |-> 0, lo |-> t], txs |-> txs.v, size |-> size.v,
                  height |-> 0]

GetBlockInfo(height) ==
    LET bi == IF Has(cfHeight, height) THEN unpackBlockInfo(packBlockInfo(cfHeight[height]))
              ELSE unpackBlockInfo(<< >>)
    IN  IF ~bi.found THEN bi ELSE [bi EXCEPT !.height = height]

\* block times below 2^32, from 2^32 on and negative; block sizes packed in
\* one, two and three bytes
BlockTimes == {[hi |-> hi, lo |-> lo] : hi \in {-1, 0, 1}, lo \in {0, 1, -1}}

BlockSizes == {0, 127, 128, 16384}

TimedBlocks(height) ==
    {[MkBlock(height, txs) EXCEPT !.time = t, !.size = sz] :
        t \in BlockTimes, sz \in BlockSizes,
        txs \in {<< >>, << [txid |-> TxId(height, 1), vin |-> <<Outpoint(0, 0)>>,
                            vout |-> <<Output(<<1>>, 1)>>] >>}}

\* snap keeps the connected blocks; codec holds the last read of the store as
\* it is now
ConnectTimed ==
    /\ Top < MaxPairHeight
    /\ \E block \in TimedBlocks(Top + 1) :
        /\ ConnectBlock(block)
        /\ chain' = Put(chain, block.height, ChainEntry(chain, block))
        /\ snap' = Put(snap, block.height, block)
        /\ codec' = NoCodec
        /\ UNCHANGED << call, is, cfDefault, db, scan, cs >>

ReadBlockInfo ==
    /\ \E height \in 0..MaxPairHeight :
          codec' = [NoCodec EXCEPT !.op = "GetBlockInfo", !.height = height,
                                   !.unpacked = GetBlockInfo(height)]
    /\ UNCHANGED << cols, isBestHeight, last, chain, snap, call, is, cfDefault, db, scan, cs >>

NextBlockInfo ==
    \/ ConnectTimed
    \/ ReadBlockInfo

SpecBlockInfo == Init /\ [][NextBlockInfo]_vars

\* ------------------------------------------------------------ properties

RealAddrDescs == AddrDescs \ {<< >>}

\* C3: every stored address balance has a sent amount >= 0 and a balance >= 0,
\* after any sequence of connects and disconnects (negative results are reset to zero)
C3_NonNegative ==
    \A a \in DOMAIN cfAddressBalance :
        cfAddressBalance[a].sentSat >= 0 /\ cfAddressBalance[a].balanceSat >= 0

\* C3 witness: a write that reset a negative amount has left a balance record behind
C3_ResetStored == last.err = "" /\ last.reset /\ DOMAIN cfAddressBalance # {}

\* C8: DisconnectBlockRangeUTXO over a range in which some height has no block-tx
\* record returns the rebuild error naming the lowest such height, and writes nothing
C8_MissingBlockTxs ==
    [][(/\ last'.op = "DisconnectBlockRangeUTXO"
        /\ \E h \in last'.lower..last'.higher : ~Has(cfBlockTxs, h))
            => /\ last'.err = "rebuild"
               /\ \A h \in last'.lower..last'.higher :
                    ~Has(cfBlockTxs, h) => last'.errHeight <= h
               /\ ~Has(cfBlockTxs, last'.errHeight)
               /\ last'.errHeight \in last'.lower..last'.higher
               /\ cols' = cols]_vars

\* C8 witness: the call failed on a range whose lowest height has a record, the record
\* of a higher height missing
C8_Refused ==
    /\ last.op = "DisconnectBlockRangeUTXO"
    /\ last.err = "rebuild"
    /\ Has(cfBlockTxs, last.lower)
    /\ last.errHeight > last.lower

\* C9: DisconnectBlock on a UTXO chain returns an error and changes nothing: every
\* column and the best height of the internal state are as before the call
C9_DisconnectBlockNoChange ==
    [][last'.op = "DisconnectBlock"
            => /\ last'.err # ""
               /\ cols' = cols
               /\ isBestHeight' = isBestHeight]_vars

\* GetBestBlock: the height of the last key of the height column, 0 when it is empty
GetBestBlock == IF DOMAIN cfHeight = {} THEN 0 ELSE SetMax(DOMAIN cfHeight)

\* C10: after every successful write (ConnectBlock, DisconnectBlockRangeUTXO) the
\* best height of the internal state equals the maximum height of the height column
C10_BestHeightInSync ==
    (last.op \in {"ConnectBlock", "DisconnectBlockRangeUTXO"} /\ last.err = "")
        => isBestHeight = GetBestBlock

\* the stored spent flag of an output, FALSE when the transaction has no record
SpentFlag(column, txid, vout) ==
    Has(column, txid) /\ vout < Len(column[txid].outputs) /\ column[txid].outputs[vout + 1].spent

\* the resolved inputs of the blocks ch records at the heights hs
ResolvedInputs(ch, hs) ==
    UNION {UNION {{ch[h][i].ins[v] : v \in {v \in 1..Len(ch[h][i].ins) : ch[h][i].ins[v].resolved}} :
                    i \in 1..Len(ch[h])} : h \in hs \cap DOMAIN ch}

\* C5: every input resolved during ConnectBlock sets the spent flag of the consumed
\* output in the stored record; after a successful DisconnectBlockRangeUTXO of the
\* spending block the flag is false again in the stored record of every output those
\* inputs consumed, whatever its recorded address
C5_SpentFlagRoundTrip ==
    [][/\ last'.op = "ConnectBlock"
            => \A in \in ResolvedInputs(chain', {last'.lower}) :
                    SpentFlag(cfTxAddresses', in.txid, in.vout)
       /\ (last'.op = "DisconnectBlockRangeUTXO" /\ last'.err = "")
            => \A in \in ResolvedInputs(chain, last'.lower..last'.higher) :
                    Has(cfTxAddresses', in.txid) => ~SpentFlag(cfTxAddresses', in.txid, in.vout)]_vars

\* C1: connecting n blocks from a state S and then disconnecting them with
\* DisconnectBlockRangeUTXO, n within the retention, leaves every column (height,
\* addresses, tx-addresses, balances, block-tx, transactions) as it was in S
C1_RoundTrip ==
    [][(/\ last'.op = "DisconnectBlockRangeUTXO"
        /\ last'.err = ""
        /\ last'.higher - last'.lower + 1 <= Keep)
            => cols' = snap[last'.lower]]_vars

\* C7: after the blocks of heights 0..h are connected in turn, the block-tx column
\* has an entry for height k exactly when h - Keep < k <= h, for every h
C7_RetentionWindow ==
    last.op = "ConnectBlock"
        => \A k \in 0..MaxHeight :
                Has(cfBlockTxs, k) <=> (last.higher - Keep < k /\ k <= last.higher)

\* the sum of a sequence of numbers
RECURSIVE SumSeq(_)
SumSeq(s) == IF s = <<>> THEN 0 ELSE Head(s) + SumSeq(Tail(s))

\* the sum of the values of a function with a finite domain
RECURSIVE SumFn(_)
SumFn(f) ==
    IF DOMAIN f = {} THEN 0
    ELSE LET x == CHOOSE x \in DOMAIN f : TRUE
         IN  f[x] + SumFn([y \in (DOMAIN f) \ {x} |-> f[y]])

AddrValue(r, a) == IF r.addrDesc = a THEN r.valueSat ELSE 0

\* the values of all outputs paying to a, and of all inputs spending from a
OutputSum(ch, a) ==
    SumFn([h \in DOMAIN ch |->
        SumSeq([i \in 1..Len(ch[h]) |->
            SumSeq([k \in 1..Len(ch[h][i].outs) |-> AddrValue(ch[h][i].outs[k], a)])])])

InputSum(ch, a) ==
    SumFn([h \in DOMAIN ch |->
        SumSeq([i \in 1..Len(ch[h]) |->
            SumSeq([k \in 1..Len(ch[h][i].ins) |-> AddrValue(ch[h][i].ins[k], a)])])])

\* where the resolved inputs stand: height, transaction, input
InputPositions(ch) ==
    UNION {UNION {{<<h, i, v>> : v \in {v \in 1..Len(ch[h][i].ins) : ch[h][i].ins[v].resolved}} :
                    i \in 1..Len(ch[h])} : h \in DOMAIN ch}

\* no output is spent by two inputs
WellFormed(ch) ==
    \A p, q \in InputPositions(ch) :
        LET x == ch[p[1]][p[2]].ins[p[3]]
            y == ch[q[1]][q[2]].ins[q[3]]
        IN  (x.txid = y.txid /\ x.vout = y.vout) => p = q

\* C2: after connecting blocks in which every input spends an output not spent before,
\* the stored balance of every address A has sent = the sum of the inputs spending
\* from A and balance = the sum of the outputs paying to A minus that sum
C2_BalanceSums ==
    WellFormed(chain)
        => \A a \in RealAddrDescs :
            LET b == GetAddrDescBalance(a)
            IN  /\ b.sentSat = InputSum(chain, a)
                /\ b.balanceSat = OutputSum(chain, a) - InputSum(chain, a)

\* C2 witness: an address that has spent and still holds an amount, no output spent twice
C2_SpentAndHolding ==
    /\ WellFormed(chain)
    /\ \E a \in RealAddrDescs :
        /\ Has(cfAddressBalance, a)
        /\ cfAddressBalance[a].sentSat > 0
        /\ cfAddressBalance[a].balanceSat > 0

Touches(tx, a) ==
    \/ \E k \in 1..Len(tx.outs) : tx.outs[k].addrDesc = a
    \/ \E k \in 1..Len(tx.ins) : tx.ins[k].resolved /\ tx.ins[k].addrDesc = a

\* the transactions of the blocks at heights hs that pay to a or spend from a
TouchCount(ch, hs, a) ==
    Cardinality({p \in UNION {{<<h, i>> : i \in 1..Len(ch[h])} : h \in hs \cap DOMAIN ch} :
                    Touches(ch[p[1]][p[2]], a)})

TxsOf(column, a) == IF Has(column, a) THEN column[a].txs ELSE 0

\* C4: ConnectBlock raises the transaction count of an address by exactly 1 for each
\* transaction of the block with an output to it or a resolved input from it, however
\* many of them the transaction has, and a successful disconnect of the block lowers
\* the count by exactly 1 per such transaction
C4_TxsOncePerTx ==
    [][/\ last'.op = "ConnectBlock"
            => \A a \in RealAddrDescs :
                TxsOf(cfAddressBalance', a) =
                    TxsOf(cfAddressBalance, a) + TouchCount(chain', {last'.lower}, a)
       /\ (last'.op = "DisconnectBlockRangeUTXO" /\ last'.err = "")
            => \A a \in RealAddrDescs :
                TxsOf(cfAddressBalance', a) =
                    TxsOf(cfAddressBalance, a) - TouchCount(chain, last'.lower..last'.higher, a)]_vars

\* C4 witness: the block connected last has a transaction with two outputs to an
\* address and two inputs spending from it
C4_PaysAndSpends ==
    /\ last.op = "ConnectBlock"
    /\ \E a \in RealAddrDescs : \E i \in 1..Len(chain[last.lower]) :
        LET tx == chain[last.lower][i]
        IN  /\ Cardinality({k \in 1..Len(tx.outs) : tx.outs[k].addrDesc = a}) >= 2
            /\ Cardinality({k \in 1..Len(tx.ins) : tx.ins[k].resolved /\ tx.ins[k].addrDesc = a}) >= 2

\* the inputs of the block at height h that spend an output of a transaction of
\* that block
InBlockSpends(ch, h) ==
    {in \in ResolvedInputs(ch, {h}) : \E i \in 1..Len(ch[h]) : ch[h][i].txid = in.txid}

\* C6: when a transaction spends an output created by a transaction of the same
\* block, the record ConnectBlock stores for the creating transaction has that output
\* spent
C6_InBlockSpend ==
    last.op = "ConnectBlock"
        => \A in \in InBlockSpends(chain, last.lower) : SpentFlag(cfTxAddresses, in.txid, in.vout)

\* C6 witness: the block connected last has a transaction spending the output of
\* a transaction that comes after it in the block
C6_SpendsLaterTx ==
    /\ last.op = "ConnectBlock"
    /\ \E i, j \in 1..Len(chain[last.lower]) :
        /\ i < j
        /\ \E k \in 1..Len(chain[last.lower][i].ins) :
            /\ chain[last.lower][i].ins[k].resolved
            /\ chain[last.lower][i].ins[k].txid = chain[last.lower][j].txid


C12_ErrorLeavesColumns ==
    [][(call.op = "ConnectBlock" /\ call'.pc = "idle" /\ last'.err # "")
            => cols' = call.before]_vars

\* C12 witness: a ConnectBlock has returned the error of its write after its cleanup
\* has deleted a blockTxs record
C12_FailedAfterCleanup ==
    /\ call.pc = "idle"
    /\ last.op = "ConnectBlock"
    /\ last.err = "write"
    /\ last.lower > Keep
    /\ ~Has(cfBlockTxs, last.lower - Keep)
    /\ Has(cfHeight, last.lower - Keep)

\* the address-index entries of an address at the heights lower..higher, by height,
\* as the calls of fn they stand for
RECURSIVE EntriesOf(_, _, _)
EntriesOf(addrDesc, lower, higher) ==
    IF lower > higher THEN << >>
    ELSE LET k == packAddressKey(addrDesc, lower)
             here == IF Has(cfAddresses, k)
                     THEN [i \in 1..Len(cfAddresses[k]) |-> CallOf(cfAddresses[k][i])]
                     ELSE << >>
         IN  here \o EntriesOf(addrDesc, lower + 1, higher)

\* C13: GetAddrDescTransactions(addr, lower, higher, fn) calls fn for the outpoints of
\* exactly the address-index entries of addr at the heights lower..higher, by
\* non-decreasing height, an output at position i as (vout i, output) and an input at
\* position i as (vout i, not output)
C13_ExactlyTheEntries ==
    (scan.called /\ scan.fn = << >>)
        => scan.calls = EntriesOf(scan.addrDesc, scan.lower, scan.higher)

\* C13 witness: a call went through entries of the address at two heights
C13_TwoHeights ==
    /\ scan.called
    /\ scan.fn = << >>
    /\ scan.lower < scan.higher
    /\ Has(cfAddresses, packAddressKey(scan.addrDesc, scan.lower))
    /\ Has(cfAddresses, packAddressKey(scan.addrDesc, scan.higher))
    /\ \E i \in 1..Len(scan.calls) : ~scan.calls[i].isOutput

\* the number of the first call of fn that returns an error, 0 when there is none
FirstError(fn) ==
    IF \E n \in 1..Len(fn) : fn[n] # "ok"
    THEN CHOOSE n \in 1..Len(fn) : fn[n] # "ok" /\ \A m \in 1..(n - 1) : fn[m] = "ok"
    ELSE 0

\* C14: once fn returns a StopIteration it is not called again and the call returns
\* no error; once fn returns another error it is not called again and the call
\* returns that error
C14_StopsAtFirstError ==
    scan.called =>
        LET n == FirstError(scan.fn)
            all == GetAddrDescTransactions(scan.addrDesc, scan.lower, scan.higher, << >>).calls
        IN  IF n = 0 \/ Len(all) < n
            THEN scan.calls = all /\ scan.err = ""
            ELSE /\ scan.calls = SubSeq(all, 1, n)
                 /\ scan.err = IF scan.fn[n] = "stop" THEN "" ELSE scan.fn[n]

\* C14 witness: fn has stopped a call that had more to deliver
C14_Stopped ==
    /\ scan.called
    /\ scan.fn = <<"ok", "stop">>
    /\ Len(scan.calls) = 2
    /\ Len(GetAddrDescTransactions(scan.addrDesc, scan.lower, scan.higher, << >>).calls) > 2

\* LoadInternalState has just been called on a record whose coin goes with rpcCoin
LoadedPastCoins ==
    /\ last.op = "LoadInternalState"
    /\ ~cfDefault.found \/ cfDefault.coin \in {"", last.coin}

\* C15 as stated: LoadInternalState fails with the incompatibility error and returns
\* no state whenever a stored column has a version other than dbVersion, and succeeds
\* with every column stamped dbVersion when all stored versions are dbVersion or no
\* record is stored
C15_AnyStoredVersion ==
    last.op = "LoadInternalState" =>
        IF \E j \in 1..Len(cfDefault.columns) : cfDefault.columns[j].version # dbVersion
        THEN last.err = "version" /\ ~is.set
        ELSE last.err = "" /\ is.set /\ is.columns = ColumnsOf(dbVersion)

\* C15: when the stored coin goes with rpcCoin, LoadInternalState fails with the
\* incompatibility error and returns no state whenever the first stored column of a
\* name of cfNames has a version other than dbVersion, and succeeds with every column
\* stamped dbVersion otherwise, so when all stored versions are dbVersion or no
\* record is stored
C15_VersionCheck ==
    LoadedPastCoins =>
        IF \E i \in 1..Len(cfNames) :
              /\ StoredColumn(cfDefault.columns, cfNames[i]) # 0
              /\ cfDefault.columns[StoredColumn(cfDefault.columns, cfNames[i])].version
                    # dbVersion
        THEN last.err = "version" /\ ~is.set
        ELSE last.err = "" /\ is.set /\ is.columns = ColumnsOf(dbVersion)

\* C15 witness: a record with a column of another version has been refused
C15_Refused ==
    /\ LoadedPastCoins
    /\ last.err = "version"
    /\ cfDefault.found

\* C16 as stated: LoadInternalState(rpcCoin) returns an error whenever the stored coin
\* is not empty and is not rpcCoin; when the stored coin is empty or no record is
\* stored it succeeds and the coin of the state it returns is rpcCoin
C16_CoinAlone ==
    last.op = "LoadInternalState" =>
        IF cfDefault.found /\ cfDefault.coin # ""
        THEN cfDefault.coin # last.coin => last.err # ""
        ELSE last.err = "" /\ is.set /\ is.coin = last.coin

\* C16: LoadInternalState(rpcCoin) returns the error of the coins whenever the stored
\* coin is not empty and is not rpcCoin; when no record is stored, or the stored coin
\* is empty and the stored columns pass the version check, it succeeds and the coin
\* of the state it returns is rpcCoin
C16_CoinCheck ==
    last.op = "LoadInternalState" =>
        IF cfDefault.found /\ cfDefault.coin # ""
        THEN cfDefault.coin # last.coin => last.err = "coins" /\ ~is.set
        ELSE Incompatible(cfDefault.columns) = {}
                => last.err = "" /\ is.set /\ is.coin = last.coin

\* C16 witness: a record of another coin has been refused
C16_Refused ==
    /\ last.op = "LoadInternalState"
    /\ last.err = "coins"
    /\ cfDefault.coin \in Coins \ {last.coin}

\* C17: SetInconsistentState(true) stores the state "inconsistent" and
\* SetInconsistentState(false) the state "open"; Close on a database whose state is
\* "open" stores "closed"; Close on one whose state is "inconsistent" leaves the stored
\* state "inconsistent"; a second Close changes nothing
C17_StateMachine ==
    [][/\ (last'.op = "SetInconsistentState" /\ last'.err = "")
            => cfDefault'.found /\ cfDefault'.dbState =
                    IF last'.inconsistent THEN "inconsistent" ELSE "open"
       /\ (last'.op = "Close" /\ db /\ is.set /\ is.dbState = "open")
            => cfDefault'.found /\ cfDefault'.dbState = "closed"
       /\ (last'.op = "Close" /\ db /\ is.set /\ is.dbState = "inconsistent")
            => cfDefault' = cfDefault /\ cfDefault'.dbState = "inconsistent"
       /\ (last'.op = "Close" /\ ~db)
            => cfDefault' = cfDefault /\ is' = is /\ db' = db]_vars

\* C17 witness: a database whose state is "inconsistent" has been closed
C17_ClosedInconsistent ==
    /\ ~db
    /\ last.op = "Close"
    /\ is.set
    /\ is.dbState = "inconsistent"
    /\ cfDefault.dbState = "inconsistent"

\* the two blocks connected: T0 without inputs pays 50 to A; T1 spends that output
\* and pays 30 to B and 20 to A
PaidWithChange ==
    /\ DOMAIN chain = {0, 1}
    /\ chain[0][1].ins = << >>
    /\ chain[0][1].outs = <<[addrDesc |-> <<1>>, valueSat |-> 50]>>
    /\ chain[1][1].ins = <<[resolved |-> TRUE, txid |-> TxId(0, 1), vout |-> 0,
                            addrDesc |-> <<1>>, valueSat |-> 50]>>
    /\ chain[1][1].outs = <<[addrDesc |-> <<2>>, valueSat |-> 30],
                            [addrDesc |-> <<1>>, valueSat |-> 20]>>

\* what the two blocks leave but for the address index of A at height 1
PaidWithChangeStored ==
    /\ cfAddressBalance[<<1>>] = [txs |-> 2, sentSat |-> 50, balanceSat |-> 20]
    /\ cfAddressBalance[<<2>>] = [txs |-> 1, sentSat |-> 0, balanceSat |-> 30]
    /\ cfTxAddresses[TxId(0, 1)].outputs[1].spent
    /\ cfAddresses[packAddressKey(<<2>>, 1)] = <<[btxID |-> TxId(1, 1), index |-> 0]>>

\* C18 as stated: after block 0 {T0: no inputs; 50 to A} and block 1 {T1: input (T0, 0);
\* 30 to B, 20 to A}: balance(A) = (txs 2, sent 50, balance 20), balance(B) = (1, 0, 30),
\* output 0 of T0 is spent, the index of B at height 1 is [(T1, 0)] and the index of A
\* at height 1 is [(T1, ~0), (T1, 1)] in that order
C18_InputEntryFirst ==
    PaidWithChange =>
        /\ PaidWithChangeStored
        /\ cfAddresses[packAddressKey(<<1>>, 1)] =
              <<[btxID |-> TxId(1, 1), index |-> -1], [btxID |-> TxId(1, 1), index |-> 1]>>

\* C18: after the same two blocks the balances, the spent flag and the index of B are
\* those, and the index of A at height 1 is [(T1, 1), (T1, ~0)]: the entry of the
\* output comes before the entry of the input
C18_OutputEntryFirst ==
    PaidWithChange =>
        /\ PaidWithChangeStored
        /\ cfAddresses[packAddressKey(<<1>>, 1)] =
              <<[btxID |-> TxId(1, 1), index |-> 1], [btxID |-> TxId(1, 1), index |-> -1]>>

\* C18 witness: the two blocks are connected and A has its two entries at height 1
C18_BothConnected ==
    /\ PaidWithChange
    /\ Has(cfAddresses, packAddressKey(<<1>>, 1))
    /\ Len(cfAddresses[packAddressKey(<<1>>, 1)]) = 2

\* C19: no stored balance has a transaction count of 0, an address whose count comes
\* to 0 in a disconnect has its balance deleted, and no count goes below zero: the
\* stored count of an address is the number of connected transactions that pay to it
\* or spend from it, and an address without any has no balance
C19_NoZeroTxs ==
    /\ \A a \in DOMAIN cfAddressBalance : cfAddressBalance[a].txs > 0
    /\ \A a \in RealAddrDescs :
        IF TouchCount(chain, DOMAIN chain, a) = 0
        THEN ~Has(cfAddressBalance, a)
        ELSE TxsOf(cfAddressBalance, a) = TouchCount(chain, DOMAIN chain, a)

\* C19 witness: a disconnect has deleted the balance of an address
C19_BalanceDeleted ==
    /\ last.op = "DisconnectBlockRangeUTXO"
    /\ last.err = ""
    /\ last.deleted
    /\ \E a \in RealAddrDescs : ~Has(cfAddressBalance, a)

\* an output whose descriptor cannot be decoded, is empty or is longer than 1024 bytes
Unindexed(output) ==
    output.err \/ Len(output.addrDesc) = 0 \/ Len(output.addrDesc) > 1024

\* the outputs of the connected blocks: height, transaction, output
VoutPositions ==
    UNION {UNION {{<<h, i, n>> : n \in 1..Len(chain[h][i].vout)} : i \in 1..Len(chain[h])} :
            h \in DOMAIN chain}

\* the indexed outputs to an address, and the transactions that have one
PaysTo(a) ==
    {p \in VoutPositions :
        LET o == chain[p[1]][p[2]].vout[p[3]] IN ~Unindexed(o) /\ o.addrDesc = a}
PaidSum(a) == SumFn([p \in PaysTo(a) |-> chain[p[1]][p[2]].vout[p[3]].valueSat])
PayingTxs(a) == {<<p[1], p[2]>> : p \in PaysTo(a)}

\* C20: an output whose descriptor cannot be decoded, is empty or is longer than 1024
\* bytes has no address-index entry and changes no balance, and its value is stored
\* with an empty address; an output whose descriptor is exactly 1024 bytes long (or
\* shorter) is indexed: it has its entry, its address in the stored record, and its
\* value in the balance
C20_UnindexedOutputs ==
    /\ \A p \in VoutPositions :
        LET tx == chain[p[1]][p[2]]
            o == tx.vout[p[3]]
            stored == cfTxAddresses[tx.txid].outputs[p[3]]
            entry == [btxID |-> tx.txid, index |-> p[3] - 1]
        IN  /\ stored.valueSat = o.valueSat
            /\ IF Unindexed(o)
               THEN /\ stored.addrDesc = << >>
                    /\ \A k \in DOMAIN cfAddresses :
                          \A e \in 1..Len(cfAddresses[k]) : cfAddresses[k][e] # entry
               ELSE /\ stored.addrDesc = o.addrDesc
                    /\ Has(cfAddresses, packAddressKey(o.addrDesc, p[1]))
                    /\ \E e \in 1..Len(cfAddresses[packAddressKey(o.addrDesc, p[1])]) :
                          cfAddresses[packAddressKey(o.addrDesc, p[1])][e] = entry
    /\ DOMAIN cfAddressBalance = {a \in VoutAddrDescs : PaysTo(a) # {}}
    /\ \A a \in DOMAIN cfAddressBalance :
          cfAddressBalance[a] = [txs |-> Cardinality(PayingTxs(a)), sentSat |-> 0,
                                 balanceSat |-> PaidSum(a)]

\* C20 witness: a transaction with an output to a descriptor of 1025 bytes and an output
\* to one of 1024 bytes is connected, and a block with an output that does not decode
C20_AllKinds ==
    /\ DOMAIN chain = {0, 1}
    /\ chain[0][1].vout[1].addrDesc = LongAddrDesc(1025) /\ ~chain[0][1].vout[1].err
    /\ chain[0][1].vout[2].addrDesc = LongAddrDesc(1024) /\ ~chain[0][1].vout[2].err
    /\ chain[1][1].vout[1].err /\ chain[1][1].vout[1].addrDesc = LongAddrDesc(1024)
    /\ chain[1][1].vout[2].addrDesc = << >>
    /\ cfAddressBalance[LongAddrDesc(1024)].txs = 1

C22_BigintRoundTrip ==
    (codec.op = "packBigint" /\ Len(codec.bi) <= maxPackedBigintBytes - 1) =>
        LET L == codec.buf[1]
        IN  /\ Len(codec.buf) = L + 1
            /\ SubSeq(codec.buf, 2, L + 1) = codec.bi
            /\ L > 0 => codec.buf[2] # 0
            /\ codec.bi = << >> <=> L = 0
            /\ codec.n = L + 1
            /\ codec.r = codec.bi
            /\ codec.l = L + 1

\* C22 witness: a magnitude of 248 bytes was packed and unpacked.
C22_Packed248 ==
    /\ codec.op = "packBigint"
    /\ Len(codec.bi) = maxPackedBigintBytes - 1
    /\ codec.n = maxPackedBigintBytes

\* C23 as stated: an integer whose natural magnitude is longer than 248 bytes
\* is packed into exactly 249 bytes, the length byte 248 followed by 248
\* magnitude bytes, and unpackBigint returns the value of those bytes. The
\* code keeps the significant bytes of the top word and 30 words below it,
\* which is 248 bytes only when the top word has no leading zero byte.
C23_TruncatedTo248 ==
    (codec.op = "packBigint" /\ Len(codec.bi) > maxPackedBigintBytes - 1) =>
        /\ Len(codec.buf) = maxPackedBigintBytes
        /\ codec.buf[1] = maxPackedBigintBytes - 1
        /\ codec.n = maxPackedBigintBytes
        /\ codec.r = SubSeq(codec.bi, 1, maxPackedBigintBytes - 1)
        /\ codec.l = maxPackedBigintBytes

\* C23 witness: a magnitude longer than 248 bytes was packed into fewer than
\* 249 bytes.
C23_TruncatedShorter ==
    /\ codec.op = "packBigint"
    /\ Len(codec.bi) > maxPackedBigintBytes - 1
    /\ codec.n < maxPackedBigintBytes

\* the byte-wise order of the two keys of a descriptor is the numeric order of
\* their heights
KeyOrderIsHeightOrder ==
    /\ BytesLess(codec.key1, codec.key2) <=> ULess(codec.h1, codec.h2)
    /\ codec.key1 = codec.key2 <=> codec.h1 = codec.h2

KeyUnpacked ==
    /\ codec.err = ""
    /\ codec.unpacked = codec.addrDesc
    /\ codec.height = codec.h1

\* C24 (amended): for every address descriptor of length 1..1024 and every
\* height, unpackAddressKey of the packed key returns the descriptor and the
\* height without error; for a fixed descriptor of any length the byte-wise
\* order of two keys is the numeric order of their heights.
C24_AddressKeyRoundTrip ==
    codec.op = "packAddressKey" =>
        /\ Len(codec.addrDesc) \in 1..maxAddrDescLen => KeyUnpacked
        /\ KeyOrderIsHeightOrder

\* C24 witness: a descriptor of 1024 bytes was packed at the greatest height
\* and at a lower one.
C24_LongestAtTopHeight ==
    /\ codec.op = "packAddressKey"
    /\ Len(codec.addrDesc) = maxAddrDescLen
    /\ codec.h1 = -1
    /\ ULess(codec.h2, codec.h1)
    /\ BytesLess(codec.key2, codec.key1)

\* C24 as stated: the round trip holds for every descriptor of length 0..1024;
\* the key of the empty descriptor is rejected by unpackAddressKey.
C24_EmptyDescriptorToo ==
    (codec.op = "packAddressKey" /\ Len(codec.addrDesc) \in 0..maxAddrDescLen) =>
        KeyUnpacked /\ KeyOrderIsHeightOrder

\* the number of outputs of the transaction an input names, in the store or in
\* the block itself; -1 when the transaction is in neither
NamedOutputs(block, input) ==
    LET own == {i \in 1..Len(block.txs) : block.txs[i].txid = input.txid}
    IN  IF own # {} THEN Len(block.txs[CHOOSE i \in own : TRUE].vout)
        ELSE IF Has(cfTxAddresses, input.txid) THEN Len(cfTxAddresses[input.txid].outputs)
        ELSE -1

\* an input that names a transaction, but one that is not known or has no such output
NothingToSpend(block, input) ==
    ~ErrTxidMissing(input.txid) /\ NamedOutputs(block, input) <= input.vout

\* the block with every such input replaced by an input without a transaction id
WithoutSkipped(block) ==
    [block EXCEPT !.txs = [i \in 1..Len(block.txs) |->
        [block.txs[i] EXCEPT !.vin = [p \in 1..Len(block.txs[i].vin) |->
            IF NothingToSpend(block, block.txs[i].vin[p]) THEN Outpoint(0, 0)
            ELSE block.txs[i].vin[p]]]]]

\* C25: an input of a connected block whose transaction is neither in the block
\* nor in the store, or whose output index is out of range, is skipped:
\* ConnectBlock succeeds, the address index, the balances and the transaction
\* records (spent flags included) are what they would be without that input,
\* the record of a stored transaction named only by such inputs is unchanged,
\* and the spending transaction's record of the input has the empty address.
C25_InputSkipped ==
    [][\A block \in SkipBlocks(Top + 1) :
        (Top < MaxPairHeight /\ ConnectNext(block)) =>
            LET w == processAddressesUTXO(WithoutSkipped(block))
            IN  /\ last'.err = ""
                /\ cfAddresses' = storeAddresses(cfAddresses, block.height, w.addresses)
                /\ cfAddressBalance' = storeBalances(cfAddressBalance, w.balances)
                /\ cfTxAddresses' = storeTxAddresses(cfTxAddresses, w.txAddressesMap)
                /\ \A i \in 1..Len(block.txs) : \A p \in 1..Len(block.txs[i].vin) :
                      NothingToSpend(block, block.txs[i].vin[p]) =>
                        /\ cfTxAddresses'[block.txs[i].txid].inputs[p] =
                                [addrDesc |-> << >>, valueSat |-> 0]
                        /\ last'.notFound \/ last'.outOfBounds
                /\ \A t \in DOMAIN cfTxAddresses :
                      (\A i \in 1..Len(block.txs) : \A p \in 1..Len(block.txs[i].vin) :
                          block.txs[i].vin[p].txid = t =>
                              NothingToSpend(block, block.txs[i].vin[p]))
                        => cfTxAddresses'[t] = cfTxAddresses[t]]_vars

\* C25 witness: a block was connected with an input naming an unknown
\* transaction and an input naming an output that does not exist.
C25_BothKindsSkipped ==
    /\ last.op = "ConnectBlock"
    /\ last.err = ""
    /\ last.notFound
    /\ last.outOfBounds

\* an input that names an output of a stored transaction, and that output
Spendable(input) ==
    /\ ~ErrTxidMissing(input.txid)
    /\ Has(cfTxAddresses, input.txid)
    /\ input.vout < Len(cfTxAddresses[input.txid].outputs)

SpentOutput(input) == cfTxAddresses[input.txid].outputs[input.vout + 1]

\* the values the inputs take from address a, one per input, in input order
RECURSIVE DebitsOf(_, _)
DebitsOf(vin, a) ==
    IF vin = << >> THEN << >>
    ELSE (IF Spendable(Head(vin)) /\ SpentOutput(Head(vin)).addrDesc = a
          THEN << SpentOutput(Head(vin)).valueSat >> ELSE << >>) \o DebitsOf(Tail(vin), a)

\* a balance after the debits, never below zero
RECURSIVE ClampedDebits(_, _)
ClampedDebits(balanceSat, debits) ==
    IF debits = << >> THEN balanceSat
    ELSE ClampedDebits(IF balanceSat < Head(debits) THEN 0 ELSE balanceSat - Head(debits),
                       Tail(debits))

CreditsOf(vout, a) ==
    SumSeq([i \in 1..Len(vout) |->
                IF IndexedOutput(vout[i]) /\ vout[i].addrDesc = a THEN vout[i].valueSat ELSE 0])

\* C26: a block with two inputs naming the same earlier output, or with an
\* input naming an output that is already spent, is connected without error;
\* every output named by an input is marked spent afterwards, and each such
\* input debits the output's address once more: sent goes up by the value and
\* the balance down by it, stopping at zero, once per input.
C26_DoubleSpendDebited ==
    [][\A block \in TouchBlocks(Top + 1) :
        (Top < MaxPairHeight /\ ConnectNext(block) /\ last'.doubleSpend) =>
            LET tx == block.txs[1]
            IN  /\ last'.err = ""
                /\ \A p \in 1..Len(tx.vin) :
                      Spendable(tx.vin[p]) =>
                        /\ cfTxAddresses'[tx.vin[p].txid].outputs[tx.vin[p].vout + 1].spent
                        /\ cfTxAddresses'[tx.txid].inputs[p] =
                                [addrDesc |-> SpentOutput(tx.vin[p]).addrDesc,
                                 valueSat |-> SpentOutput(tx.vin[p]).valueSat]
                /\ \A a \in RealAddrDescs :
                      LET debits == DebitsOf(tx.vin, a)
                          old == IF Has(cfAddressBalance, a) THEN cfAddressBalance[a]
                                 ELSE [txs |-> 0, sentSat |-> 0, balanceSat |-> 0]
                      IN  debits # << >> =>
                            /\ Has(cfAddressBalance', a)
                            /\ cfAddressBalance'[a].sentSat = old.sentSat + SumSeq(debits)
                            /\ cfAddressBalance'[a].balanceSat =
                                    ClampedDebits(old.balanceSat + CreditsOf(tx.vout, a), debits)]_vars

\* C26 witness: a block was connected whose two inputs took the same value from
\* the same address, the second of them from an output already spent, and the
\* balance was reset to zero.
C26_SpentTwice ==
    /\ last.op = "ConnectBlock"
    /\ last.err = ""
    /\ last.doubleSpend
    /\ last.reset
    /\ \E t \in DOMAIN cfTxAddresses :
          /\ cfTxAddresses[t].height = last.lower
          /\ cfTxAddresses[t].inputs[1].addrDesc # << >>
          /\ cfTxAddresses[t].inputs[1] = cfTxAddresses[t].inputs[2]

\* C27 as stated: when DisconnectBlockRangeUTXO disconnects blocks whose connect
\* reset no amount, going from the higher height down and through each block's
\* transactions in reverse, no sent amount and no balance goes negative on the
\* way (no amount is reset), wherever in its block a transaction stands that
\* spends an output of another transaction of the block.
C27_NoResetOnDisconnect ==
    (/\ last.op = "DisconnectBlockRangeUTXO"
     /\ last.err = ""
     /\ \A h \in last.lower..last.higher : Has(snap, h) /\ ~snap[h]) => ~last.reset

\* C27 witness: a block connected without a reset was disconnected with one.
C27_ResetOnDisconnect ==
    /\ last.op = "DisconnectBlockRangeUTXO"
    /\ last.err = ""
    /\ \A h \in last.lower..last.higher : Has(snap, h) /\ ~snap[h]
    /\ last.reset

\* a height whose blockTxs record the cleanup reads as missing: no record, or
\* a record of no bytes
NoBlockTxs(column, h) == ~Has(column, h) \/ column[h] = << >>

\* the heights at or below rh from which a walk downward from rh has to pass a
\* height without record
BelowGap(column, rh) ==
    {e \in DOMAIN column : \E g \in (e + 1)..rh : NoBlockTxs(column, g)}

KeyHeight(key) == unpackUint(SubSeq(key, Len(key) - packedHeightBytes + 1, Len(key)))

OutpointsByInput(h, a) ==
    UNION {{[btxID |-> chain[h][k].txid, index |-> chain[h][k].vout[o].n] :
                o \in {o \in 1..Len(chain[h][k].vout) : chain[h][k].vout[o].addrDesc = a}}
            \cup {[btxID |-> chain[h][k].txid, index |-> -p] :
                    p \in {p \in 1..Len(chain[h][k].vin) :
                            \E i \in 1..Len(chain[h][k].vin[p].addresses) :
                                chain[h][k].vin[p].addresses[i].addrDesc = a}} :
           k \in 1..Len(chain[h])}

\* C30 as stated: on an account chain every address touched by a connected
\* block has exactly one address key at the block's height, holding the
\* outpoints of the block that touch it: the output index for an output, ~p for
\* an address of the input at position p of its transaction; the balance, the
\* transaction address and the block transaction columns stay empty.
C30_OneKeyPerAddress ==
    /\ \A h \in DOMAIN chain : \A a \in AccountAddrDescs :
          LET key == packAddressKey(a, h)
          IN  IF OutpointsByInput(h, a) = {} THEN ~Has(cfAddresses, key)
              ELSE /\ Has(cfAddresses, key)
                   /\ {cfAddresses[key][i] : i \in 1..Len(cfAddresses[key])}
                        = OutpointsByInput(h, a)
    /\ cfTxAddresses = EmptyMap
    /\ cfAddressBalance = EmptyMap
    /\ cfBlockTxs = EmptyMap

\* C30 witness: the address of the second input of a transaction, not otherwise
\* touched by it, is indexed with ~0.
C30_SecondInputIndexedAsFirst ==
    \E h \in DOMAIN chain :
        LET tx == chain[h][1]
        IN  /\ Len(tx.vin) = 2
            /\ tx.vin[2].addresses[1].addrDesc # tx.vin[1].addresses[1].addrDesc
            /\ tx.vin[2].addresses[1].addrDesc # tx.vout[1].addrDesc
            /\ Has(cfAddresses, packAddressKey(tx.vin[2].addresses[1].addrDesc, h))
            /\ cfAddresses[packAddressKey(tx.vin[2].addresses[1].addrDesc, h)]
                    = << [btxID |-> tx.txid, index |-> -1] >>

KeysOf(col) == [i \in 1..Len(col) |-> col[i].key]

IsPrefix(a, b) == Len(a) <= Len(b) /\ a = SubSeq(b, 1, Len(a))

\* C31: a full scan that reopens its iterator every thr >= 1 records reads
\* every key of the column exactly once and in order, and its result is that
\* of one uninterrupted scan: computeColumnSize returns the number of records
\* and the sums of the key and value lengths of the column, allAddressesScan
\* the keys of the column whose height lies in the range.
C31_ScansVisitOnce ==
    /\ \A c \in 1..Len(cs.visited) : IsPrefix(cs.visited[c], KeysOf(cs.cols[c]))
    /\ \A c \in 1..Len(cs.returned) :
          cs.returned[c] # << >> =>
            /\ cs.visited[c] = KeysOf(cs.cols[c])
            /\ cs.returned[c] =
                    << Len(cs.cols[c]),
                       SumSeq([i \in 1..Len(cs.cols[c]) |-> Len(cs.cols[c][i].key)]),
                       SumSeq([i \in 1..Len(cs.cols[c]) |-> Len(cs.cols[c][i].value)]) >>
    /\ cs.scanned =>
          /\ cs.addrVisited = KeysOf(cs.cols[3])
          /\ cs.addrKeys = SelectSeq(KeysOf(cs.cols[3]),
                                     LAMBDA k : KeyHeight(k) \in cs.lower..cs.higher)

\* C31 failing state: both scans are over and a column of more records than
\* the threshold was counted short, a key in the range not taken.
C31_KeySkippedAtRefresh ==
    /\ cs.pc = "done"
    /\ cs.err = ""
    /\ cs.scanned
    /\ Len(cs.cols[3]) > cs.thr
    /\ cs.returned[3][1] < Len(cs.cols[3])
    /\ cs.lower = 0
    /\ cs.higher = MaxRows
    /\ Len(cs.addrKeys) < Len(cs.cols[3])

\* the signal was delivered while the column being scanned had unread records
SignalledAtUnread == cs.sig.sent /\ cs.sig.unread

InterruptedReturn == cs.pc = "done" /\ cs.err = "Interrupted"

\* after the signal at most one refresh interval of records is read, no scan
\* ends without the error, and the statistics of the column being scanned and
\* of the columns after it are those held before
SignalHonoured ==
    SignalledAtUnread =>
        /\ cs.sig.further <= cs.thr
        /\ cs.pc = "done" => cs.err = "Interrupted"
        /\ \A c \in cs.sig.col..Len(cs.stats) : cs.stats[c] = StaleStats
        /\ \A c \in 1..(cs.sig.col - 1) :
              cs.stats[c] = [rows |-> cs.returned[c][1], keyBytes |-> cs.returned[c][2],
                             valueBytes |-> cs.returned[c][3]]

\* C32: a signal delivered while ComputeInternalStateColumnStats scans a column
\* with unread records makes it return the error Interrupted after at most one
\* refresh interval of further records, with the statistics of the interrupted
\* column and of the columns not yet scanned unchanged.
C32_InterruptedPromptly == [](SignalHonoured) /\ (SignalledAtUnread ~> InterruptedReturn)

\* C32 failing state: the signal came while the column had an unread record,
\* and the scan ended without the error, the statistics of that column set.
C32_SignalMissed ==
    /\ SignalledAtUnread
    /\ cs.pc = "done"
    /\ cs.err = ""
    /\ cs.stats[cs.sig.col] # StaleStats
    /\ cs.returned[cs.sig.col][1] < Len(cs.cols[cs.sig.col])

\* C33: GetBlockInfo(height) of a connected block returns its hash, its number
\* of transactions, its size and its time as they were in the block, whatever
\* the int64 time.
C33_BlockInfoRoundTrip ==
    (codec.op = "GetBlockInfo" /\ Has(snap, codec.height)) =>
        LET block == snap[codec.height]
        IN  /\ codec.unpacked.found
            /\ codec.unpacked.height = codec.height
            /\ codec.unpacked.hash = block.hash
            /\ codec.unpacked.txs = Len(block.txs)
            /\ codec.unpacked.size = block.size
            /\ codec.unpacked.time = block.time

\* C33 failing state: a block with a negative time or a time from 2^32 on was
\* read back with another time, the rest as in the block.
C33_TimeTruncated ==
    /\ codec.op = "GetBlockInfo"
    /\ Has(snap, codec.height)
    /\ snap[codec.height].time.hi # 0
    /\ codec.unpacked.found
    /\ codec.unpacked.time = [hi |-> 0, lo |-> snap[codec.height].time.lo]
    /\ codec.unpacked.hash = snap[codec.height].hash
    /\ codec.unpacked.size = snap[codec.height].size

\* a block time that fits 32 bits unsigned comes back as it was
C33_TimeBelow2To32Kept ==
    (codec.op = "GetBlockInfo" /\ Has(snap, codec.height) /\ snap[codec.height].time.hi = 0)
        => codec.unpacked.time = snap[codec.height].time

\* the values of a record: of its inputs and of its outputs
TaValuesOf(ta) ==
    {ta.inputs[i].valueSat : i \in 1..Len(ta.inputs)}
        \cup {ta.outputs[i].valueSat : i \in 1..Len(ta.outputs)}

\* C34: a record of transaction addresses whose values have a magnitude of at
\* most 248 bytes comes back from unpackTxAddresses(packTxAddresses(r)) as it
\* was: the height, every input and every output with its address descriptor
\* of 0..1024 bytes, its value and its spent flag, a spent output with an
\* empty address as spent with an empty address.
C34_TxAddressesRoundTrip ==
    (codec.op = "packTxAddresses"
        /\ \A v \in TaValuesOf(codec.ta) : Len(v) <= maxPackedBigintBytes - 1)
        => codec.unpacked = codec.ta

\* C34 witness: a record with a spent output of an empty address, a spent
\* output of the longest address and an input of the longest address was
\* packed and unpacked.
C34_SpentEmptyAndLongest ==
    /\ codec.op = "packTxAddresses"
    /\ Len(codec.ta.inputs) = 2
    /\ Len(codec.ta.inputs[1].addrDesc) = maxAddrDescLen
    /\ Len(codec.ta.outputs) = 2
    /\ Len(codec.ta.outputs[1].addrDesc) = maxAddrDescLen
    /\ codec.ta.outputs[1].spent
    /\ Len(codec.ta.outputs[1].valueSat) = maxPackedBigintBytes - 1
    /\ codec.ta.outputs[2].addrDesc = << >>
    /\ codec.ta.outputs[2].spent
    /\ codec.unpacked.outputs[2] = [addrDesc |-> << >>, spent |-> TRUE, valueSat |-> << >>]

\* C34 as stated: every record comes back as it was, whatever its values.
C34_EveryRecordRoundTrip ==
    codec.op = "packTxAddresses" => codec.unpacked = codec.ta

\* C35: DisconnectBlockRangeUTXO(lower, higher) with lower <= higher and the
\* blockTxs records of the range all present returns, with success or with an
\* error, also for lower = 0: its loop from higher down stops at lower and
\* takes no block outside the ones it loaded.
C35_LoopStopsAtLower ==
    (last.op = "DisconnectBlockRangeUTXO" /\ last.err # "rebuild") =>
        /\ ~last.pastLower
        /\ last.err # "panic"

\* C35 failing state: the range 0..0 with its blockTxs record present was
\* disconnected, the loop went on below height 0 and the call did not return;
\* the store is as it was.
C35_PastLowerZero ==
    /\ last.op = "DisconnectBlockRangeUTXO"
    /\ last.lower = 0
    /\ last.higher = 0
    /\ last.pastLower
    /\ last.err = "panic"
    /\ Has(cfBlockTxs, 0)
    /\ Has(cfHeight, 0)

\* a range that starts above height 0 stops at its lower height, and a range
\* that starts at height 0 never does
C35_PastLowerIffZero ==
    (last.op = "DisconnectBlockRangeUTXO" /\ last.err # "rebuild")
        => (last.pastLower <=> last.lower = 0)

\* the calls of fn that the entries under the keys of an address stand for
CallsUnder(addrDesc) ==
    UNION {{CallOf(cfAddresses[key][i]) : i \in 1..Len(cfAddresses[key])} :
            key \in {k \in DOMAIN cfAddresses : unpackAddressKey(k).addrDesc = addrDesc}}

\* C36: GetAddrDescTransactions(addr, lower, higher, fn) calls fn only for
\* outpoints stored under keys whose address descriptor is addr, never for an
\* entry of a longer descriptor that starts with addr.
C36_OnlyKeysOfAddress ==
    scan.called =>
        \A i \in 1..Len(scan.calls) : scan.calls[i] \in CallsUnder(scan.addrDesc)

\* C36 failing state: the transactions of <<1>> were asked for and fn was
\* called for an output paid to <<1, 0>>, an entry stored under no key of <<1>>.
C36_LongerDescriptorDelivered ==
    /\ scan.called
    /\ scan.addrDesc = << 1 >>
    /\ \E i \in 1..Len(scan.calls) :
          /\ scan.calls[i].isOutput
          /\ scan.calls[i] \in CallsUnder(<< 1, 0 >>)
          /\ scan.calls[i] \notin CallsUnder(<< 1 >>)

\* a call for an address that none of the stored descriptors extends delivers
\* entries of that address alone
C36_OwnKeysWithoutExtension ==
    (scan.called /\ scan.addrDesc # << 1 >>) =>
        \A i \in 1..Len(scan.calls) : scan.calls[i] \in CallsUnder(scan.addrDesc)

====
